---- MODULE Spec2Model ----
(***************************************************************************)
(* Session multiplexing and command routing of the Telegram bot            *)
(* (src/tg-bot/app): the three CLI routers (claude_cli, cursor_cli,        *)
(* chatgpt_cli), the start router, and the dispatcher set up in main.py.   *)
(*                                                                         *)
(* Texts are sequences of one-character strings, so that strip, casefold,  *)
(* the session-name pattern and the flag marker are computed, not assumed. *)
(*                                                                         *)
(* Every update is handled in a task of its own (Dispatcher.start_polling  *)
(* with its default handle_as_tasks, no events isolation, main.py:299-319).*)
(* A handler runs atomically up to an await of the sandbox runtime (docker *)
(* exec / docker run in an executor thread); there it is suspended and     *)
(* other tasks run.  A database transaction (one "async with get_session") *)
(* and the FSM storage calls next to it are taken as one step.             *)
(***************************************************************************)
EXTENDS Integers, Sequences, FiniteSets, TLC

(* ------------------------------------------------------------------ *)
(* Bounds of the model                                                 *)
(* ------------------------------------------------------------------ *)
MaxEvents == 3
MaxTasks == 2

Users == {"u1"}
\* The accounts the storage and the database hold; updates come from Users
\* unless a specification says otherwise
Accounts == {"u1", "u2"}
Tasks == 1..MaxTasks
Tokens == {"t1", "t2"}
None == "None"
\* Python's None where a text (a sequence of characters) may stand
NoText == <<None>>

(* ------------------------------------------------------------------ *)
(* Text primitives (Python str methods used by the handlers)           *)
(* ------------------------------------------------------------------ *)
UC == <<"A","B","C","D","E","F","G","H","I","J","K","L","M",
        "N","O","P","Q","R","S","T","U","V","W","X","Y","Z">>
LC == <<"a","b","c","d","e","f","g","h","i","j","k","l","m",
        "n","o","p","q","r","s","t","u","v","w","x","y","z">>
Digits == {"0","1","2","3","4","5","6","7","8","9"}
Range(f) == {f[i] : i \in DOMAIN f}

LowerChar(c) ==
    IF \E i \in DOMAIN UC : UC[i] = c
    THEN LC[CHOOSE i \in DOMAIN UC : UC[i] = c]
    ELSE c

\* str.lower() / str.casefold() on the characters the model uses
Lower(s) == [i \in DOMAIN s |-> LowerChar(s[i])]

IsSpace(c) == c \in {" ", "\n", "\t"}

RECURSIVE LStrip(_)
LStrip(s) == IF s # <<>> /\ IsSpace(Head(s)) THEN LStrip(Tail(s)) ELSE s

RECURSIVE RStrip(_)
RStrip(s) ==
    IF s # <<>> /\ IsSpace(s[Len(s)]) THEN RStrip(SubSeq(s, 1, Len(s) - 1)) ELSE s

\* str.strip()
Strip(s) == RStrip(LStrip(s))

\* str.startswith(p)
StartsWith(s, p) == Len(s) >= Len(p) /\ SubSeq(s, 1, Len(p)) = p

\* re.match(r'^[a-zA-Z0-9_-]+$', s)  (s is already stripped)
NameChars == Range(UC) \cup Range(LC) \cup Digits \cup {"_", "-"}
NameMatches(s) == s # <<>> /\ \A i \in DOMAIN s : s[i] \in NameChars

\* Control vocabulary and menu labels
NEW_SESSION_BUTTON == <<"N","e","w"," ","S","e","s","s","i","o","n">>
FLAGS_BUTTON == <<"F","l","a","g","s">>
\* "◀️ Главное меню": an arrow, a space and two words in Cyrillic; none of its
\* characters is a name character.
BACK_TO_MAIN == <<"<|", " ", "GL", " ", "ME">>
T_exit == <<"/","e","x","i","t">>
T_delete == <<"/","d","e","l","e","t","e">>
T_start == <<"/","s","t","a","r","t">>
FlagsMarker == <<"#","f","l","a","g","s">>
HostPrefixes == << <<"!","h","o","s","t">>, <<"#","h","o","s","t">>,
                   <<"!","e","x","e","c">>, <<"#","e","x","e","c">> >>

\* Position of the first case-insensitive occurrence of #flags, 0 if none
\* (re.search, IGNORECASE)
FindMarker(s) ==
    LET hits == {i \in 1..Len(s) :
                    /\ i + Len(FlagsMarker) - 1 <= Len(s)
                    /\ Lower(SubSeq(s, i, i + Len(FlagsMarker) - 1)) = FlagsMarker}
    IN IF hits = {} THEN 0 ELSE CHOOSE i \in hits : \A j \in hits : i <= j

\* A variant that returns the trimmed rest as the flags even when it is empty
parse_flags_from_query_blank(query) ==
    LET m == FindMarker(query) IN
    IF m > 0
    THEN [query |-> Strip(SubSeq(query, 1, m - 1)),
          flags |-> Strip(SubSeq(query, m + Len(FlagsMarker), Len(query)))]
    ELSE [query |-> query, flags |-> NoText]

\* parse_flags_from_query: (query_without_flags, flags_text).  The match of
\* r'#flags\s*(.*?)$' starts at the first marker and runs to the end of the
\* text; the flags are the stripped rest, None when that is empty; without a
\* marker the query is returned as it came
parse_flags_from_query(query) ==
    LET m == FindMarker(query)
        flags == Strip(SubSeq(query, m + Len(FlagsMarker), Len(query)))
    IN
    IF m > 0
    THEN [query |-> Strip(SubSeq(query, 1, m - 1)),
          flags |-> IF flags # <<>> THEN flags ELSE NoText]
    ELSE [query |-> query, flags |-> NoText]

\* A text handed to shlex.split: the first whitespace-separated token
RECURSIVE FirstToken(_)
FirstToken(s) ==
    IF s = <<>> \/ IsSpace(Head(s)) THEN <<>> ELSE <<Head(s)>> \o FirstToken(Tail(s))

ALLOWED_HOST_COMMANDS ==
   {<<"p","i","n","g">>, <<"t","r","a","c","e","r","o","u","t","e">>, <<"m","t","r">>,
    <<"n","e","t","s","t","a","t">>, <<"s","s">>, <<"i","p">>, <<"c","u","r","l">>,
    <<"w","g","e","t">>, <<"n","c">>, <<"n","m","a","p">>, <<"d","i","g">>,
    <<"h","o","s","t">>, <<"n","s","l","o","o","k","u","p">>, <<"d","f">>,
    <<"f","r","e","e">>, <<"t","o","p">>, <<"h","t","o","p">>, <<"p","s">>,
    <<"u","p","t","i","m","e">>, <<"u","n","a","m","e">>, <<"l","s">>,
    <<"c","a","t">>, <<"g","r","e","p">>, <<"f","i","n","d">>, <<"d","u">>,
    <<"s","t","a","t">>}

(* ------------------------------------------------------------------ *)
(* Program state                                                       *)
(* ------------------------------------------------------------------ *)
VARIABLES
    fsmState,   \* per user: the FSM state kept in the Redis storage
    fsmData,    \* per user: the FSM data dictionary
    sessions,   \* rows of claude_/cursor_/chatgpt_cli_sessions (tagged by kind)
    messages,   \* rows of the three *_cli_messages tables, in insertion order
    nextId,     \* per kind: the next autoincrement id of the sessions table
    tasks,      \* handler tasks: idle, or suspended in a sandbox call
    nEvents,    \* updates delivered so far
    last,       \* the step just taken: its handler, text and the turn's effects
    gateway,    \* a call of execute_host_command_simple followed on its own
    flagParser, \* a call of parse_flags_from_query followed on its own
    reply       \* an agent or host call and the answer sent for it, by lengths

vars == <<fsmState, fsmData, sessions, messages, nextId, tasks, nEvents, last, gateway,
          flagParser, reply>>

Kinds == {"claude", "cursor", "chatgpt"}

\* StatesGroup names (str(state) is "<group>:<name>")
Group(k) ==
    CASE k = "claude" -> "ClaudeCLIState"
      [] k = "cursor" -> "CursorCLIState"
      [] k = "chatgpt" -> "ChatGPTCLIState"

St(k, name) == [group |-> Group(k), name |-> name]
NoState == [group |-> None, name |-> None]

\* Keys of the menu items that host a session list
MenuKey(k) ==
    CASE k = "claude" -> "SYSOPKA_CLAUDECLI"
      [] k = "cursor" -> "SYSOPKA_CURSORCLI"
      [] k = "chatgpt" -> "SYSOPKA_CHATGPT"

\* The menu items of MENU_STRUCTURE that lead to the CLI submenus (an item's
\* key stands for its database id)
MENU_STRUCTURE ==
    {[key |-> "SYSOPKA", label |-> <<"S","y","s","o","p","k","a">>,
      parent |-> None, action_type |-> "submenu"],
     [key |-> "SYSOPKA_CHATGPT", label |-> <<"C","h","a","t","g","p","t","C","L","I">>,
      parent |-> "SYSOPKA", action_type |-> "chatgpt_cli_submenu"],
     [key |-> "SYSOPKA_CLAUDECLI", label |-> <<"C","l","a","u","d","e","C","L","I">>,
      parent |-> "SYSOPKA", action_type |-> "claude_cli_submenu"],
     [key |-> "SYSOPKA_CURSORCLI", label |-> <<"C","u","r","s","o","r","C","L","I">>,
      parent |-> "SYSOPKA", action_type |-> "cursor_cli_submenu"]}

\* FSM data: absent keys read as None (<<>> for texts)
EmptyData ==
    [session_name |-> <<>>, session_uuid |-> None,
     current_query |-> <<>>, menu_parent_id |-> None]

NoRow == [kind |-> None, id |-> 0, user_id |-> None, session_name |-> <<>>, uuid |-> None]

NoLoc ==
    [kont |-> None, kind |-> None, name |-> <<>>, sid |-> 0, uuid |-> None,
     query |-> <<>>, flags |-> NoText]

IdleTask == [pc |-> "idle", user |-> None, loc |-> NoLoc, op |-> None, trace |-> <<>>]

\* An effect of a turn that an outside observer sees: a call of the agent or
\* of the sandbox, a session made active, a confirmation sent
Eff(op, tok, name, n) == [op |-> op, tok |-> tok, name |-> name, n |-> n]

(* ------------------------------------------------------------------ *)
(* The world a handler works on, and the storage operations            *)
(* ------------------------------------------------------------------ *)
World(u) ==
    [user |-> u, st |-> fsmState[u], data |-> fsmData[u], sessions |-> sessions,
     messages |-> messages, nextId |-> nextId, pc |-> "done", loc |-> NoLoc,
     op |-> None, trace |-> <<>>, crashed |-> FALSE]

Log(w, e) == [w EXCEPT !.trace = Append(@, e)]

\* The operation a turn resolved to (kept for the observer, like the trace)
Tag(w, op) == [w EXCEPT !.op = op]

\* FSMContext.clear(): state None, data {}
Clear(w) == [w EXCEPT !.st = NoState, !.data = EmptyData]

Suspend(w, pc, loc) == [w EXCEPT !.pc = pc, !.loc = loc]

\* get_user_sessions: the names of the user's sessions of one kind
SessionNames(w, k) ==
    {s.session_name : s \in {r \in w.sessions : r.kind = k /\ r.user_id = w.user}}

\* A variant that looks a session up by its name alone
FindSession_any_user(w, k, name) ==
    LET rows == {r \in w.sessions : r.kind = k /\ r.session_name = name}
    IN IF rows = {} THEN NoRow ELSE CHOOSE r \in rows : TRUE

\* SELECT ... WHERE user_id = :u AND session_name = :n  (scalar_one_or_none)
FindSession(w, k, name) ==
    LET rows == {r \in w.sessions :
                    r.kind = k /\ r.user_id = w.user /\ r.session_name = name}
    IN IF rows = {} THEN NoRow ELSE CHOOSE r \in rows : TRUE

\* claude_cli / cursor_cli get_or_create_session: a plain lookup
get_or_create_session(w, k, name) == FindSession(w, k, name)

\* A variant whose table has no UNIQUE constraint
InsertSession_unchecked(w, k, name, uuid) ==
    [w EXCEPT !.sessions = @ \cup {[kind |-> k, id |-> w.nextId[k],
                                    user_id |-> w.user, session_name |-> name,
                                    uuid |-> uuid]},
              !.nextId[k] = @ + 1]

\* INSERT of a session row; the UNIQUE (user_id, session_name) constraint of
\* the kind's table refuses a second row (IntegrityError)
InsertSession(w, k, name, uuid) ==
    IF FindSession(w, k, name) # NoRow
    THEN [w EXCEPT !.crashed = TRUE]
    ELSE [w EXCEPT !.sessions = @ \cup {[kind |-> k, id |-> w.nextId[k],
                                         user_id |-> w.user, session_name |-> name,
                                         uuid |-> uuid]},
                   !.nextId[k] = @ + 1]

\* A variant whose table has no foreign key
save_message_unchecked(w, k, session_id, query, response, flags_used) ==
    [w EXCEPT !.messages = Append(@, [kind |-> k, session_id |-> session_id,
                                      user_id |-> w.user, query |-> query,
                                      response |-> response,
                                      flags_used |-> flags_used])]

\* save_message: INSERT of a message row; the foreign key on session_id
\* refuses a row whose session is gone (IntegrityError, which no handler catches)
save_message(w, k, session_id, query, response, flags_used) ==
    IF \E r \in w.sessions : r.kind = k /\ r.id = session_id
    THEN [w EXCEPT !.messages = Append(@, [kind |-> k, session_id |-> session_id,
                                           user_id |-> w.user, query |-> query,
                                           response |-> response,
                                           flags_used |-> flags_used])]
    ELSE [w EXCEPT !.crashed = TRUE]

\* The rows of one session (SELECT ... WHERE session_id = :id)
MessagesOf(msgs, k, session_id) ==
    {i \in DOMAIN msgs : msgs[i].kind = k /\ msgs[i].session_id = session_id}

\* A variant with ON DELETE CASCADE: the rows go with their session
DetachMessages_cascade(msgs, k, session_id) ==
    SelectSeq(msgs, LAMBDA m : ~(m.kind = k /\ m.session_id = session_id))

\* A variant that leaves the rows of a deleted session as they are
DetachMessages_keep(msgs, k, session_id) == msgs

\* ForeignKey(..., ondelete="SET NULL"): the rows of a deleted session keep
\* everything but the reference (0 stands for NULL)
DetachMessages(msgs, k, session_id) ==
    [i \in DOMAIN msgs |->
        IF msgs[i].kind = k /\ msgs[i].session_id = session_id
        THEN [msgs[i] EXCEPT !.session_id = 0]
        ELSE msgs[i]]

\* db_session.delete(session_to_delete); commit(): one transaction
DeleteSessionRow(w, row) ==
    [w EXCEPT !.sessions = @ \ {row},
              !.messages = DetachMessages(@, row.kind, row.id)]

(* ------------------------------------------------------------------ *)
(* claude_cli.py and cursor_cli.py: the two routers share their code   *)
(* but for the places marked with the kind k                           *)
(* ------------------------------------------------------------------ *)

\* handle_session_button, after the previous session was ended
handle_session_button_rest(w, k, name) ==
    LET row == get_or_create_session(w, k, name) IN
    IF row = NoRow THEN w
    ELSE IF k = "claude" /\ row.uuid = None THEN w
    ELSE Log([w EXCEPT !.data.session_name = name,
                       !.data.session_uuid = row.uuid,
                       !.st = St(k, "waiting_for_query")],
             Eff("activate", row.uuid, name, 0))

\* state.clear(); _show_main_menu(message, db_user, state)
exit_rest(w) == [Clear(w) EXCEPT !.data.menu_parent_id = None]

\* delete_current_session, after the session was ended: the transaction that
\* counts the messages and deletes the row, then the return to the submenu
delete_rest(w, k, name) ==
    LET row == FindSession(w, k, name) IN
    IF row = NoRow THEN Clear(w)
    ELSE LET messages_count == Cardinality(MessagesOf(w.messages, k, row.id))
             w1 == DeleteSessionRow(w, row)
         IN Log([Clear(w1) EXCEPT !.data.menu_parent_id = MenuKey(k), !.loc.kind = k],
                Eff("deleted", None, name, messages_count))

\* What follows a call of end_*_session
AfterEnd(w, k, kont, name) ==
    CASE kont = "switch" -> handle_session_button_rest(w, k, name)
      [] kont = "exit" -> exit_rest(w)
      [] kont = "delete" -> delete_rest(w, k, name)

\* await end_claude_session(uuid) / await end_cursor_session(uuid):
\* end_claude_session runs docker exec in an executor (the task is suspended),
\* end_cursor_session returns True without awaiting anything
end_session_then(w, k, uuid, kont, name) ==
    LET w1 == Log(w, Eff("end", uuid, <<>>, 0)) IN
    IF k = "claude"
    THEN Suspend(w1, "end", [NoLoc EXCEPT !.kont = kont, !.kind = k, !.name = name])
    ELSE AfterEnd(w1, k, kont, name)

\* A variant that ends the previous session only after the new one is active
handle_session_button_late_end(w, k, name) ==
    LET w1 == handle_session_button_rest(Tag(w, "switch"), k, name) IN
    IF w.data.session_uuid # None
    THEN Log(w1, Eff("end", w.data.session_uuid, <<>>, 0))
    ELSE w1

\* handle_session_button: end the cached session, then look the chosen one up
handle_session_button(w, k, name) ==
    IF w.data.session_uuid # None
    THEN end_session_then(Tag(w, "switch"), k, w.data.session_uuid, "switch", name)
    ELSE handle_session_button_rest(Tag(w, "switch"), k, name)

\* exit_claude_cli / exit_cursor_cli
exit_cli(w, k) ==
    IF w.st.group = Group(k)
    THEN IF w.data.session_uuid # None
         THEN end_session_then(Tag(w, "exit"), k, w.data.session_uuid, "exit", <<>>)
         ELSE exit_rest(Tag(w, "exit"))
    ELSE w

\* The "/start" / BACK_TO_MAIN branch of handle_query_input and handle_flags_input
back_to_main_branch(w, k) ==
    IF w.data.session_uuid # None
    THEN end_session_then(Tag(w, "back"), k, w.data.session_uuid, "exit", <<>>)
    ELSE exit_rest(Tag(w, "back"))

delete_current_session(w, k) ==
    IF w.data.session_name = <<>> THEN w
    ELSE IF w.data.session_uuid # None
    THEN end_session_then(Tag(w, "delete"), k, w.data.session_uuid, "delete",
                          w.data.session_name)
    ELSE delete_rest(Tag(w, "delete"), k, w.data.session_name)

\* any(query_text.lower().startswith(prefix) for prefix in host_command_prefixes)
IsHostCommand(text) == \E i \in DOMAIN HostPrefixes : StartsWith(Lower(text), HostPrefixes[i])

\* query_text[len(prefix):].strip() for the first prefix that matches
HostCommandOf(text) ==
    LET i == CHOOSE i \in DOMAIN HostPrefixes :
                /\ StartsWith(Lower(text), HostPrefixes[i])
                /\ \A j \in DOMAIN HostPrefixes :
                      StartsWith(Lower(text), HostPrefixes[j]) => i <= j
    IN Strip(SubSeq(text, Len(HostPrefixes[i]) + 1, Len(text)))

\* The host-command branch after execute_host_command_simple returned
host_rest(w, k, name, query_text, success) ==
    LET row == get_or_create_session(w, k, name) IN
    IF row = NoRow THEN w
    ELSE save_message(w, k, row.id, query_text, IF success THEN "out" ELSE None, NoText)

\* execute_host_command_simple: an empty command line and a command outside
\* the allow-list are refused before any await; otherwise a container is run
host_branch(w, k, name, query_text) ==
    LET host_command == HostCommandOf(query_text) IN
    IF host_command = <<>> THEN w
    ELSE IF FirstToken(host_command) \in ALLOWED_HOST_COMMANDS
    THEN Suspend(Log(Tag(w, "host"), Eff("host", None, host_command, 0)), "host",
                 [NoLoc EXCEPT !.kont = "host", !.kind = k, !.name = name,
                               !.query = query_text])
    ELSE host_rest(Tag(w, "host"), k, name, query_text, FALSE)

\* The lookup right before the agent call, and the call itself
\* (execute_claude_command / execute_cursor_command run docker exec in an executor)
execute_branch(w, k, name, full_query, kont) ==
    LET parsed == parse_flags_from_query(full_query)
        row == get_or_create_session(w, k, name)
    IN  IF row = NoRow \/ (k = "claude" /\ row.uuid = None) THEN Clear(w)
        ELSE Suspend(Log(Tag(w, kont), Eff("query", row.uuid, name, row.id)), "exec",
                     [kont |-> kont, kind |-> k, name |-> name, sid |-> row.id,
                      uuid |-> row.uuid, query |-> parsed.query,
                      flags |-> parsed.flags])

\* handle_query_input below the control words: an ordinary text
query_body(w, k, query_text) ==
    LET session_name == w.data.session_name
        row == get_or_create_session(w, k, session_name)
    IN
    IF session_name = <<>> THEN Clear(w)
    ELSE IF w.data.session_uuid = None /\ (row = NoRow \/ (k = "claude" /\ row.uuid = None))
    THEN Clear(w)
    ELSE
      LET w1 == IF w.data.session_uuid = None /\ row.uuid # None
                THEN [w EXCEPT !.data.session_uuid = row.uuid]
                ELSE w
      IN IF IsHostCommand(query_text)
         THEN host_branch(w1, k, session_name, query_text)
         ELSE execute_branch([w1 EXCEPT !.data.current_query = query_text],
                             k, session_name, query_text, "query")

\* @router.message(<kind>CLIState.waiting_for_query)
handle_query_input(w, k, message_text) ==
    LET text == Strip(message_text) IN
    IF Lower(text) = T_delete THEN delete_current_session(w, k)
    ELSE IF text = T_exit THEN exit_cli(w, k)
    ELSE IF text = T_start \/ text = BACK_TO_MAIN THEN back_to_main_branch(w, k)
    ELSE IF text \in SessionNames(w, k) THEN handle_session_button(w, k, text)
    ELSE IF text = NEW_SESSION_BUTTON
    THEN [w EXCEPT !.st = St(k, "waiting_for_session_name")]
    ELSE query_body(w, k, text)

\* @router.message(<kind>CLIState.adding_flags)
handle_flags_input(w, k, message_text) ==
    LET text == Strip(message_text)
        current_query == w.data.current_query
        session_name == w.data.session_name
        full_query == IF current_query # <<>>
                      THEN current_query \o <<" ","#","F","l","a","g","s"," ">> \o text
                      ELSE <<"#","F","l","a","g","s"," ">> \o text
    IN
    IF Lower(text) = T_delete THEN delete_current_session(w, k)
    ELSE IF text = T_exit THEN exit_cli(w, k)
    ELSE IF text \in SessionNames(w, k) THEN handle_session_button(w, k, text)
    ELSE IF text = NEW_SESSION_BUTTON
    THEN [w EXCEPT !.st = St(k, "waiting_for_session_name")]
    ELSE IF text = T_start \/ text = BACK_TO_MAIN THEN back_to_main_branch(w, k)
    ELSE IF session_name = <<>> THEN Clear(w)
    ELSE execute_branch([w EXCEPT !.data.current_query = full_query,
                                  !.st = St(k, "waiting_for_query")],
                        k, session_name, full_query, "flags")

\* What handle_query_input ("query") and handle_flags_input ("flags") do once
\* the agent call returned (output, success, chat_id)
execute_rest(w, k, loc, success, chat_id) ==
    LET hasRow == \E r \in w.sessions : r.kind = k /\ r.id = loc.sid
        w1 == IF k = "cursor" /\ success /\ chat_id # None /\ loc.uuid = None /\ hasRow
              THEN [w EXCEPT
                      !.sessions = {IF r.kind = k /\ r.id = loc.sid
                                    THEN [r EXCEPT !.uuid = chat_id] ELSE r : r \in @},
                      !.data.session_uuid = chat_id]
              ELSE w
        w2 == save_message(w1, k, loc.sid, loc.query,
                           IF success THEN "out" ELSE None, loc.flags)
    IN  IF w2.crashed THEN w2
        ELSE IF loc.kont = "flags" THEN Clear(w2)
        ELSE [w2 EXCEPT !.data.current_query = <<>>]

\* add_flags_button
add_flags_button(w, k) ==
    LET current_query == w.data.current_query
        w1 == IF FindMarker(current_query) > 0 THEN w
              ELSE [w EXCEPT !.data.current_query =
                       IF current_query # <<>>
                       THEN current_query \o <<" ","#","F","l","a","g","s"," ">>
                       ELSE <<"#","F","l","a","g","s"," ">>]
    IN [w1 EXCEPT !.st = St(k, "adding_flags")]

\* handle_claude_cli_button / handle_cursor_cli_button (called by menu_text_router)
handle_cli_button(w, k, message_text) ==
    LET text == Strip(message_text) IN
    IF text = NEW_SESSION_BUTTON THEN [w EXCEPT !.st = St(k, "waiting_for_session_name")]
    ELSE IF text = FLAGS_BUTTON
    THEN IF w.st = St(k, "waiting_for_query") THEN add_flags_button(w, k) ELSE w
    ELSE IF Lower(text) = T_delete
    THEN IF w.st.group = Group(k) THEN delete_current_session(w, k) ELSE w
    ELSE IF text \in SessionNames(w, k) THEN handle_session_button(w, k, text)
    ELSE w

\* handle_session_name_input after create_session_with_uuid returned
\* (new_session, error): the new session becomes the active one
session_created(w, k, name, uuid) ==
    Log([w EXCEPT !.data.session_name = name, !.data.session_uuid = uuid,
                  !.st = St(k, "waiting_for_query")],
        Eff("activate", uuid, name, 0))

\* A variant that stores a token at creation
cursor_create_session_with_uuid_token(w, name) ==
    IF FindSession(w, "cursor", name) # NoRow THEN [w EXCEPT !.crashed = TRUE]
    ELSE InsertSession(w, "cursor", name, "t1")

\* cursor_cli.create_session_with_uuid: look the name up, insert a row without
\* a uuid; every exception becomes the error value
cursor_create_session_with_uuid(w, name) ==
    IF FindSession(w, "cursor", name) # NoRow THEN [w EXCEPT !.crashed = TRUE]
    ELSE InsertSession(w, "cursor", name, None)

\* A variant that stores the row whatever the answer named
claude_create_session_with_uuid_unchecked(w, name, uuid) ==
    InsertSession(w, "claude", name, uuid)

\* claude_cli.create_session_with_uuid once docker exec returned: uuid is the
\* session_id of the JSON answer, None when the call failed or named none
claude_create_session_with_uuid(w, name, uuid) ==
    IF uuid = None THEN [w EXCEPT !.crashed = TRUE]
    ELSE InsertSession(w, "claude", name, uuid)

\* A variant that goes on to the new session whatever create returned
session_name_rest_enter(w, created, k, name, uuid) ==
    session_created(IF created.crashed THEN w ELSE created, k, name, uuid)

\* The tail of handle_session_name_input: an error is reported and leaves
\* everything as it was
session_name_rest(w, created, k, name, uuid) ==
    IF created.crashed THEN Log(w, Eff("error", uuid, name, 0))
    ELSE session_created(created, k, name, uuid)

\* A variant that takes a name in use for the choice of that session
handle_session_name_input_reuse(w, k, message_text) ==
    LET session_name == Strip(message_text) IN
    IF ~NameMatches(session_name) THEN w
    ELSE IF get_or_create_session(w, k, session_name) # NoRow
    THEN handle_session_button_rest(Tag(w, "switch"), k, session_name)
    ELSE IF k = "claude"
    THEN Suspend(Log(Tag(w, "name"), Eff("create", None, session_name, 0)), "create",
                 [NoLoc EXCEPT !.kont = "create", !.kind = k, !.name = session_name])
    ELSE session_name_rest(Tag(w, "name"),
                           cursor_create_session_with_uuid(Tag(w, "name"), session_name),
                           k, session_name, None)

\* @router.message(<kind>CLIState.waiting_for_session_name)
handle_session_name_input(w, k, message_text) ==
    LET session_name == Strip(message_text) IN
    IF ~NameMatches(session_name) THEN w
    ELSE IF get_or_create_session(w, k, session_name) # NoRow THEN w
    ELSE IF k = "claude"
    THEN Suspend(Log(Tag(w, "name"), Eff("create", None, session_name, 0)), "create",
                 [NoLoc EXCEPT !.kont = "create", !.kind = k, !.name = session_name])
    ELSE session_name_rest(Tag(w, "name"),
                           cursor_create_session_with_uuid(Tag(w, "name"), session_name),
                           k, session_name, None)

(* ------------------------------------------------------------------ *)
(* chatgpt_cli.py                                                      *)
(* ------------------------------------------------------------------ *)

\* chatgpt_cli.create_session: look the name up, insert; errors become a value
chatgpt_create_session(w, name) ==
    IF FindSession(w, "chatgpt", name) # NoRow THEN [w EXCEPT !.crashed = TRUE]
    ELSE InsertSession(w, "chatgpt", name, None)

\* chatgpt_cli.get_or_create_session: creates the row when there is none
chatgpt_get_or_create_session(w, name) ==
    IF FindSession(w, "chatgpt", name) # NoRow THEN w
    ELSE LET created == chatgpt_create_session(w, name)
         IN IF created.crashed THEN w ELSE created

chatgpt_handle_session_button(w, name) ==
    LET w1 == chatgpt_get_or_create_session(w, name) IN
    IF FindSession(w1, "chatgpt", name) = NoRow THEN w1
    ELSE Log([Tag(w1, "switch") EXCEPT !.data.session_name = name,
                                       !.st = St("chatgpt", "waiting_for_query")],
             Eff("activate", None, name, 0))

\* @router.message(ChatGPTCLIState.waiting_for_session_name)
chatgpt_handle_session_name_input(w, message_text) ==
    LET session_name == Strip(message_text)
        created == chatgpt_create_session(w, session_name)
    IN
    IF ~NameMatches(session_name) THEN w
    ELSE IF FindSession(w, "chatgpt", session_name) # NoRow THEN w
    ELSE IF created.crashed THEN Log(Tag(w, "name"), Eff("error", None, session_name, 0))
    ELSE Log([Tag(created, "name") EXCEPT !.data.session_name = session_name,
                                          !.st = St("chatgpt", "waiting_for_query")],
             Eff("activate", None, session_name, 0))

\* exit_chatgpt_cli and exit_to_main_menu: state.clear(); _show_main_menu
chatgpt_exit(w) == exit_rest(Tag(w, "exit"))

\* @router.message(ChatGPTCLIState.waiting_for_query)
chatgpt_handle_query_input(w, message_text) ==
    LET query_text == Strip(message_text)
        session_name == w.data.session_name
        w1 == chatgpt_get_or_create_session(w, session_name)
        row == FindSession(w1, "chatgpt", session_name)
    IN
    IF query_text = <<>> THEN w
    ELSE IF session_name = <<>> THEN Clear(w)
    ELSE IF row = NoRow THEN Clear(w1)
    ELSE Suspend(Log(Tag(w1, "query"), Eff("query", None, session_name, row.id)), "exec",
                 [NoLoc EXCEPT !.kont = "chatgpt", !.kind = "chatgpt",
                               !.name = session_name, !.sid = row.id,
                               !.query = query_text])

\* chatgpt handle_query_input once execute_chatgpt_command returned
chatgpt_execute_rest(w, loc, success) ==
    save_message(w, "chatgpt", loc.sid, loc.query, IF success THEN "out" ELSE None, NoText)

\* chatgpt_cli.delete_current_session: menu_parent_id is written before
\* state.clear()
chatgpt_delete_current_session(w) ==
    LET name == w.data.session_name
        row == FindSession(w, "chatgpt", name)
    IN
    IF name = <<>> THEN w
    ELSE IF row = NoRow THEN Clear(w)
    ELSE Log(Clear([DeleteSessionRow(Tag(w, "delete"), row) EXCEPT
                       !.data.menu_parent_id = MenuKey("chatgpt"),
                       !.loc.kind = "chatgpt"]),
             Eff("deleted", None, name,
                 Cardinality(MessagesOf(w.messages, "chatgpt", row.id))))

\* handle_chatgpt_cli_button (called by menu_text_router)
handle_chatgpt_cli_button(w, message_text) ==
    LET text == Strip(message_text) IN
    IF text = NEW_SESSION_BUTTON
    THEN [w EXCEPT !.st = St("chatgpt", "waiting_for_session_name")]
    ELSE IF Lower(text) = T_delete
    THEN IF w.st.group = Group("chatgpt") THEN chatgpt_delete_current_session(w) ELSE w
    ELSE IF text \in SessionNames(w, "chatgpt") THEN chatgpt_handle_session_button(w, text)
    ELSE w

(* ------------------------------------------------------------------ *)
(* start.py                                                            *)
(* ------------------------------------------------------------------ *)

\* cmd_start: _show_main_menu sets menu_parent_id to None
cmd_start(w) == [w EXCEPT !.data.menu_parent_id = None]

\* cmd_back_to_main: state.clear(); _show_main_menu
cmd_back_to_main(w) == exit_rest(w)

\* get_menu_items_for_user(db_user, parent_id=None), their labels
MainMenuLabels == {m.label : m \in {i \in MENU_STRUCTURE : i.parent = None}}

\* get_menu_item_by_label(text, user, parent_id)
MenuItemsByLabel(message_text, parent_id) ==
    {m \in MENU_STRUCTURE : m.label = Strip(message_text) /\ m.parent = parent_id}

\* @router.message(F.text): the last handler of the start router
menu_text_router(w, message_text) ==
    LET isMain == message_text \in MainMenuLabels
        w1 == IF isMain THEN [Clear(w) EXCEPT !.data.menu_parent_id = None] ELSE w
        parent_id == w1.data.menu_parent_id
        items == MenuItemsByLabel(message_text, parent_id)
    IN
    IF w1.st.group \in {Group("claude"), Group("cursor")} /\ ~isMain THEN w1
    ELSE IF parent_id = MenuKey("claude") THEN handle_cli_button(w1, "claude", message_text)
    ELSE IF parent_id = MenuKey("cursor") THEN handle_cli_button(w1, "cursor", message_text)
    ELSE IF parent_id = MenuKey("chatgpt") THEN handle_chatgpt_cli_button(w1, message_text)
    ELSE IF items = {} THEN w1
    ELSE [w1 EXCEPT !.data.menu_parent_id = (CHOOSE m \in items : TRUE).key]

(* ------------------------------------------------------------------ *)
(* main.py: the routers in the order they are included; in a router    *)
(* the first handler whose filters accept the message handles it       *)
(* ------------------------------------------------------------------ *)
Route(st, message_text) ==
    IF st = St("claude", "adding_flags") THEN "claude.handle_flags_input"
    ELSE IF st = St("claude", "waiting_for_query") THEN "claude.handle_query_input"
    ELSE IF st = St("claude", "waiting_for_session_name")
    THEN "claude.handle_session_name_input"
    ELSE IF Lower(message_text) = T_exit THEN "claude.exit_claude_cli"
    ELSE IF st = St("cursor", "adding_flags") THEN "cursor.handle_flags_input"
    ELSE IF st = St("cursor", "waiting_for_query") THEN "cursor.handle_query_input"
    ELSE IF st = St("cursor", "waiting_for_session_name")
    THEN "cursor.handle_session_name_input"
    ELSE IF Lower(message_text) = T_exit THEN "cursor.exit_cursor_cli"
    ELSE IF st = St("chatgpt", "waiting_for_session_name")
    THEN "chatgpt.handle_session_name_input"
    ELSE IF st = St("chatgpt", "waiting_for_query") /\ Lower(message_text) = T_exit
    THEN "chatgpt.exit_chatgpt_cli"
    ELSE IF st = St("chatgpt", "waiting_for_query") /\ message_text = T_start
    THEN "chatgpt.exit_to_main_menu"
    ELSE IF st = St("chatgpt", "waiting_for_query") THEN "chatgpt.handle_query_input"
    ELSE IF message_text = T_start THEN "start.cmd_start"
    ELSE IF message_text = BACK_TO_MAIN THEN "start.cmd_back_to_main"
    ELSE "start.menu_text_router"

\* The handler a route names, applied to the message
Handle(w, route, message_text) ==
    CASE route = "claude.handle_flags_input" -> handle_flags_input(w, "claude", message_text)
      [] route = "claude.handle_query_input" -> handle_query_input(w, "claude", message_text)
      [] route = "claude.handle_session_name_input" ->
            handle_session_name_input(w, "claude", message_text)
      [] route = "claude.exit_claude_cli" -> exit_cli(w, "claude")
      [] route = "cursor.handle_flags_input" -> handle_flags_input(w, "cursor", message_text)
      [] route = "cursor.handle_query_input" -> handle_query_input(w, "cursor", message_text)
      [] route = "cursor.handle_session_name_input" ->
            handle_session_name_input(w, "cursor", message_text)
      [] route = "cursor.exit_cursor_cli" -> exit_cli(w, "cursor")
      [] route = "chatgpt.handle_session_name_input" ->
            chatgpt_handle_session_name_input(w, message_text)
      [] route = "chatgpt.exit_chatgpt_cli" -> chatgpt_exit(w)
      [] route = "chatgpt.exit_to_main_menu" -> chatgpt_exit(w)
      [] route = "chatgpt.handle_query_input" -> chatgpt_handle_query_input(w, message_text)
      [] route = "start.cmd_start" -> cmd_start(w)
      [] route = "start.cmd_back_to_main" -> cmd_back_to_main(w)
      [] route = "start.menu_text_router" -> menu_text_router(w, message_text)

(* ------------------------------------------------------------------ *)
(* The updates the model delivers                                      *)
(* ------------------------------------------------------------------ *)
NameA == <<"a">>
NameB == <<"b">>
NameC == <<"c">>
PlainQuery == <<"h","e","l","l","o"," ","w">>
FlagsQuery == <<"h","i"," ","#","f","l","a","g","s"," ","-","v">>
HostQuery == <<"!","h","o","s","t"," ","l","s">>
T_EXIT == <<"/","E","X","I","T">>

Texts ==
    {NameA, NameB, NameC, PlainQuery, FlagsQuery, HostQuery,
     NEW_SESSION_BUTTON, FLAGS_BUTTON, T_exit, T_EXIT, T_delete, T_start, BACK_TO_MAIN}
    \cup {m.label : m \in MENU_STRUCTURE}

(* ------------------------------------------------------------------ *)
(* Initial states: the bot starts with the database and the FSM        *)
(* storage a previous run left                                         *)
(* ------------------------------------------------------------------ *)
SessionRow(k, id, u, name, uuid) ==
    [kind |-> k, id |-> id, user_id |-> u, session_name |-> name, uuid |-> uuid]

\* No session yet, or two sessions of each token-bearing kind and one of chatgpt
InitialDatabases ==
    {[sessions |-> {}, nextId |-> [k \in Kinds |-> 1]],
     [sessions |-> {SessionRow("cursor", 1, "u1", NameA, None),
                    SessionRow("cursor", 2, "u1", NameB, "t1"),
                    SessionRow("claude", 1, "u1", NameA, "t1"),
                    SessionRow("claude", 2, "u1", NameB, "t2"),
                    SessionRow("chatgpt", 1, "u1", NameA, None)},
      nextId |-> [k \in Kinds |-> IF k = "chatgpt" THEN 2 ELSE 3]]}

\* No answer is followed
NoReply == [pc |-> "idle", kind |-> None, path |-> None, exit |-> None, raw |-> 0,
            body |-> 0, success |-> FALSE, shown |-> 0, marked |-> FALSE]

\* No call of the flag parser is followed
NoOutput == [query |-> <<>>, flags |-> NoText]
NoParse == [pc |-> "idle", query |-> <<>>, result |-> NoOutput]

\* No call of the host gateway is followed
NoResult == [kind |-> None, success |-> FALSE]
NoRequest == [command |-> <<>>, args |-> <<>>, network_mode |-> None, privileged |-> FALSE,
              remove |-> FALSE]
NoCall == [pc |-> "idle", command_line |-> <<>>, sandbox |-> "none",
           request |-> NoRequest, clock |-> 0, result |-> NoResult]

NoStep == [user |-> None, handler |-> None, text |-> <<>>, op |-> None, kind |-> None,
           trace |-> <<>>, done |-> TRUE, crashed |-> FALSE]

Init ==
    /\ fsmState = [u \in Accounts |-> NoState]
    /\ \E parent \in {None} \cup {MenuKey(k) : k \in Kinds} :
          fsmData = [u \in Accounts |-> [EmptyData EXCEPT !.menu_parent_id = parent]]
    /\ \E db \in InitialDatabases :
          /\ sessions = db.sessions
          /\ nextId = db.nextId
    /\ messages = <<>>
    /\ tasks = [t \in Tasks |-> IdleTask]
    /\ nEvents = 0
    /\ last = NoStep
    /\ gateway = NoCall
    /\ flagParser = NoParse
    /\ reply = NoReply

(* ------------------------------------------------------------------ *)
(* Actions                                                             *)
(* ------------------------------------------------------------------ *)

\* The world a step leaves is written back; a task that reached an await of
\* the sandbox keeps its locals, a finished one frees its slot
Commit(u, t, w, handler, text) ==
    /\ fsmState' = [fsmState EXCEPT ![u] = w.st]
    /\ fsmData' = [fsmData EXCEPT ![u] = w.data]
    /\ sessions' = w.sessions
    /\ messages' = w.messages
    /\ nextId' = w.nextId
    /\ tasks' = [tasks EXCEPT ![t] =
                    IF w.pc = "done" THEN IdleTask
                    ELSE [pc |-> w.pc, user |-> u, loc |-> w.loc, op |-> w.op,
                          trace |-> w.trace]]
    /\ last' = [user |-> u, handler |-> handler, text |-> text, op |-> w.op,
                kind |-> w.loc.kind, trace |-> w.trace, done |-> w.pc = "done",
                crashed |-> w.crashed]
    /\ UNCHANGED <<gateway, flagParser, reply>>

FreeTasks == {t \in Tasks : tasks[t].pc = "idle"}

\* An update arrives: the dispatcher starts a task for it, the routers pick
\* the handler from the FSM state and the text, and the handler runs up to
\* its first await of the sandbox
Deliver(u, text) ==
    /\ nEvents < MaxEvents
    /\ FreeTasks # {}
    /\ LET t == CHOOSE x \in FreeTasks : \A y \in FreeTasks : x <= y
           route == Route(fsmState[u], text)
       IN Commit(u, t, Handle(World(u), route, text), route, text)
    /\ nEvents' = nEvents + 1

Resumed(t) ==
    [World(tasks[t].user) EXCEPT !.trace = tasks[t].trace, !.op = tasks[t].op,
                                 !.loc = tasks[t].loc]

\* The answer of the sandbox, as the observer sees it
Returned(w, tok, success) == Log(w, Eff("returned", tok, <<>>, IF success THEN 1 ELSE 0))

\* execute_claude_command / execute_cursor_command / execute_chatgpt_command
\* returns: (output, success, chat_id); only cursor-agent, asked without
\* --resume, may name a chat id
ExecReturn(t) ==
    /\ tasks[t].pc = "exec"
    /\ \E success \in BOOLEAN, chat_id \in Tokens \cup {None} :
          LET loc == tasks[t].loc IN
          /\ chat_id # None => (success /\ loc.kind = "cursor" /\ loc.uuid = None)
          /\ Commit(tasks[t].user, t,
                    IF loc.kind = "chatgpt"
                    THEN chatgpt_execute_rest(Returned(Resumed(t), chat_id, success),
                                              loc, success)
                    ELSE execute_rest(Returned(Resumed(t), chat_id, success),
                                      loc.kind, loc, success, chat_id),
                    loc.kont, <<>>)
    /\ UNCHANGED nEvents

\* execute_host_command_simple returns (output, success)
HostReturn(t) ==
    /\ tasks[t].pc = "host"
    /\ \E success \in BOOLEAN :
          LET loc == tasks[t].loc IN
          Commit(tasks[t].user, t,
                 host_rest(Resumed(t), loc.kind, loc.name, loc.query, success),
                 loc.kont, <<>>)
    /\ UNCHANGED nEvents

\* docker exec of "claude chat --output-format json" returns: a session id or
\* an error
CreateReturn(t) ==
    /\ tasks[t].pc = "create"
    /\ \E uuid \in Tokens \cup {None} :
          LET loc == tasks[t].loc
              w == Resumed(t)
          IN Commit(tasks[t].user, t,
                    session_name_rest(w, claude_create_session_with_uuid(w, loc.name, uuid),
                                      loc.kind, loc.name, uuid),
                    loc.kont, <<>>)
    /\ UNCHANGED nEvents

\* How the docker exec of end_claude_session ends: exit code 0, another exit
\* code, or an exception (container missing, docker unreachable)
EndOutcomes == {"zero", "nonzero", "exception"}

\* A variant of end_claude_session that lets the exception out
end_claude_session_raising(w, outcome) ==
    IF outcome = "exception" THEN [w EXCEPT !.crashed = TRUE]
    ELSE Log(w, Eff("ended", outcome, <<>>, IF outcome = "zero" THEN 1 ELSE 0))

\* end_claude_session returns exit_code == 0, and False from its
\* "except Exception" (the effect keeps how the call ended and what it returned)
end_claude_session(w, outcome) ==
    Log(w, Eff("ended", outcome, <<>>, IF outcome = "zero" THEN 1 ELSE 0))

\* end_claude_session returns; the handlers do not look at its result
EndReturn(t) ==
    /\ tasks[t].pc = "end"
    /\ \E outcome \in EndOutcomes :
          LET loc == tasks[t].loc
              w == end_claude_session(Resumed(t), outcome)
          IN Commit(tasks[t].user, t,
                    IF w.crashed THEN w ELSE AfterEnd(w, loc.kind, loc.kont, loc.name),
                    loc.kont, <<>>)
    /\ UNCHANGED nEvents

Next ==
    \/ \E u \in Users, text \in Texts : Deliver(u, text)
    \/ \E t \in Tasks : ExecReturn(t)
    \/ \E t \in Tasks : HostReturn(t)
    \/ \E t \in Tasks : CreateReturn(t)
    \/ \E t \in Tasks : EndReturn(t)

Spec == Init /\ [][Next]_vars

\* menu_text_router calls the button handler of the submenu the user is in
\* (start.py 103-121).  The handler reads the FSM state again; here it is
\* called whatever that state is, as when the state was set between the
\* dispatch of the update and the call.
CallButton(u, k, text) ==
    /\ nEvents < MaxEvents
    /\ FreeTasks # {}
    /\ fsmData[u].menu_parent_id = MenuKey(k)
    /\ fsmState[u].group = Group(k)
    /\ LET t == CHOOSE x \in FreeTasks : \A y \in FreeTasks : x <= y
       IN Commit(u, t,
                 IF k = "chatgpt" THEN handle_chatgpt_cli_button(World(u), text)
                 ELSE handle_cli_button(World(u), k, text),
                 "button", text)
    /\ nEvents' = nEvents + 1

NextCalls ==
    \/ Next
    \/ \E u \in Users, k \in Kinds, text \in {FLAGS_BUTTON, T_delete} : CallButton(u, k, text)

SpecCalls == Init /\ [][NextCalls]_vars

(***************************************************************************)
(* Two accounts at work in the same submenu, each with a session of the     *)
(* same name: the rows of a kind's table share the id sequence, the FSM    *)
(* storage keeps one key per user                                          *)
(***************************************************************************)
UserTexts == {NameA, NameC, PlainQuery, FlagsQuery, NEW_SESSION_BUTTON, T_delete, T_exit}

\* Both accounts own a session "a" of every kind, with an exchange each
SharedDatabase ==
    [sessions |-> {SessionRow("cursor", 1, "u1", NameA, None),
                   SessionRow("cursor", 2, "u2", NameA, "t2"),
                   SessionRow("claude", 1, "u1", NameA, "t1"),
                   SessionRow("claude", 2, "u2", NameA, "t2"),
                   SessionRow("chatgpt", 1, "u1", NameA, None),
                   SessionRow("chatgpt", 2, "u2", NameA, None)},
     messages |-> [k \in Kinds |->
                     <<[kind |-> k, session_id |-> 1, user_id |-> "u1",
                        query |-> PlainQuery, response |-> "out",
                        flags_used |-> NoText],
                       [kind |-> k, session_id |-> 2, user_id |-> "u2",
                        query |-> PlainQuery, response |-> "out",
                        flags_used |-> NoText]>>],
     nextId |-> [k \in Kinds |-> 3]]

\* The FSM entry of an account that has session "a" of kind k active
WorkingIn(u, k) ==
    LET row == CHOOSE r \in SharedDatabase.sessions :
                  r.kind = k /\ r.user_id = u /\ r.session_name = NameA
    IN [st |-> St(k, "waiting_for_query"),
        data |-> [EmptyData EXCEPT !.session_name = NameA, !.session_uuid = row.uuid,
                                   !.menu_parent_id = MenuKey(k)]]

InSubmenu(k) ==
    [st |-> NoState, data |-> [EmptyData EXCEPT !.menu_parent_id = MenuKey(k)]]

InitUsers ==
    /\ \E k \in Kinds, second \in {"submenu", "session"} :
          LET fsm == [u \in Accounts |->
                        IF u = "u2" /\ second = "session" THEN WorkingIn(u, k)
                        ELSE InSubmenu(k)]
          IN /\ fsmState = [u \in Accounts |-> fsm[u].st]
             /\ fsmData = [u \in Accounts |-> fsm[u].data]
             /\ messages = SharedDatabase.messages[k]
    /\ sessions = SharedDatabase.sessions
    /\ nextId = SharedDatabase.nextId
    /\ tasks = [t \in Tasks |-> IdleTask]
    /\ nEvents = 0
    /\ last = NoStep
    /\ gateway = NoCall
    /\ flagParser = NoParse
    /\ reply = NoReply

NextUsers ==
    \/ \E u \in Accounts, text \in UserTexts : Deliver(u, text)
    \/ \E t \in Tasks : ExecReturn(t)
    \/ \E t \in Tasks : CreateReturn(t)
    \/ \E t \in Tasks : EndReturn(t)

SpecUsers == InitUsers /\ [][NextUsers]_vars

(***************************************************************************)
(* Sessions whose names are also labels: the session-name pattern accepts   *)
(* "Flags" and the label of a main-menu item, so a database may hold them   *)
(***************************************************************************)
LabelDatabase ==
    LET main == CHOOSE l \in MainMenuLabels : TRUE IN
    [sessions |-> {SessionRow("cursor", 1, "u1", NameA, None),
                   SessionRow("cursor", 2, "u1", FLAGS_BUTTON, "t1"),
                   SessionRow("cursor", 3, "u1", main, None),
                   SessionRow("claude", 1, "u1", NameA, "t1"),
                   SessionRow("claude", 2, "u1", FLAGS_BUTTON, "t2"),
                   SessionRow("claude", 3, "u1", main, "t3"),
                   SessionRow("chatgpt", 1, "u1", NameA, None),
                   SessionRow("chatgpt", 2, "u1", FLAGS_BUTTON, None),
                   SessionRow("chatgpt", 3, "u1", main, None)},
     nextId |-> [k \in Kinds |-> 4]]

\* The user has one of the three session lists open, no session active
InitLabels ==
    /\ fsmState = [u \in Accounts |-> NoState]
    /\ \E k \in Kinds :
          fsmData = [u \in Accounts |-> [EmptyData EXCEPT !.menu_parent_id = MenuKey(k)]]
    /\ sessions = LabelDatabase.sessions
    /\ nextId = LabelDatabase.nextId
    /\ messages = <<>>
    /\ tasks = [t \in Tasks |-> IdleTask]
    /\ nEvents = 0
    /\ last = NoStep
    /\ gateway = NoCall
    /\ flagParser = NoParse
    /\ reply = NoReply

SpecLabels == InitLabels /\ [][Next]_vars

(***************************************************************************)
(* A session that is gone while the FSM storage still names it: the row    *)
(* was deleted from another chat of the same user (the storage keeps one   *)
(* key per chat and user, the tables one row per user), or the commit of   *)
(* delete_current_session came before its state.clear()                   *)
(***************************************************************************)
InitVanished ==
    /\ \E k \in Kinds :
       \E uuid \in (CASE k = "claude" -> {"t1"}
                       [] k = "cursor" -> {None, "t1"}
                       [] k = "chatgpt" -> {None}) :
          /\ fsmState = [u \in Accounts |->
                            IF u = "u1" THEN St(k, "waiting_for_query") ELSE NoState]
          /\ fsmData = [u \in Accounts |->
                           IF u = "u1"
                           THEN [EmptyData EXCEPT !.session_name = NameA,
                                                  !.session_uuid = uuid,
                                                  !.menu_parent_id = MenuKey(k)]
                           ELSE EmptyData]
    /\ sessions = {SessionRow("cursor", 2, "u1", NameB, "t1"),
                   SessionRow("claude", 2, "u1", NameB, "t2")}
    /\ nextId = [k \in Kinds |-> IF k = "chatgpt" THEN 2 ELSE 3]
    /\ messages = <<>>
    /\ tasks = [t \in Tasks |-> IdleTask]
    /\ nEvents = 0
    /\ last = NoStep
    /\ gateway = NoCall
    /\ flagParser = NoParse
    /\ reply = NoReply

SpecVanished == InitVanished /\ [][Next]_vars

(***************************************************************************)
(* The host gateway (services/host_executor.py), one call followed from    *)
(* the command line to the returned (output, success)                      *)
(***************************************************************************)
MaxCmdLen == 3

\* Characters of the command lines: letters of allowed and of refused
\* commands, the separator and the quote of shlex
CmdChars == {"l", "s", "n", "c", "r", "m", " ", "'"}
CommandLines == UNION {[1..n -> CmdChars] : n \in 0..MaxCmdLen}

NETWORK_COMMANDS ==
   {<<"p","i","n","g">>, <<"t","r","a","c","e","r","o","u","t","e">>, <<"m","t","r">>,
    <<"c","u","r","l">>, <<"w","g","e","t">>, <<"n","c">>, <<"n","m","a","p">>,
    <<"d","i","g">>, <<"h","o","s","t">>, <<"n","s","l","o","o","k","u","p">>}

\* timeout: int = 30, and the buffer added for the start of the container
timeout == 30
startup_buffer == 5

\* shlex.split (posix, whitespace_split) on CmdChars: read_token's states are
\* " " between tokens, "a" in a word and "'" in a quotation; the end of the
\* line inside a quotation raises ValueError("No closing quotation")
RECURSIVE shlex_read(_, _, _, _)
shlex_read(s, state, token, parts) ==
    IF s = <<>>
    THEN IF state = "'" THEN [ok |-> FALSE, parts |-> <<>>]
         ELSE [ok |-> TRUE,
               parts |-> IF state = "a" THEN Append(parts, token) ELSE parts]
    ELSE LET c == Head(s) IN
         IF state = " "
         THEN IF IsSpace(c) THEN shlex_read(Tail(s), " ", <<>>, parts)
              ELSE IF c = "'" THEN shlex_read(Tail(s), "'", <<>>, parts)
              ELSE shlex_read(Tail(s), "a", <<c>>, parts)
         ELSE IF state = "'"
         THEN IF c = "'" THEN shlex_read(Tail(s), "a", token, parts)
              ELSE shlex_read(Tail(s), "'", Append(token, c), parts)
         ELSE IF IsSpace(c) THEN shlex_read(Tail(s), " ", <<>>, Append(parts, token))
              ELSE IF c = "'" THEN shlex_read(Tail(s), "'", token, parts)
              ELSE shlex_read(Tail(s), "a", Append(token, c), parts)

shlex_split(s) == shlex_read(s, " ", <<>>, <<>>)

\* A call that returned (message, False) before any container was asked for
Refused(g, kind) ==
    [g EXCEPT !.pc = "returned", !.result = [kind |-> kind, success |-> FALSE]]

\* A variant that looks at use_host_network alone
needs_host_network_always(command) == TRUE

\* needs_host_network = use_host_network and command in NETWORK_COMMANDS;
\* execute_host_command_simple leaves use_host_network at its default, True
needs_host_network(command) == command \in NETWORK_COMMANDS

\* The arguments of client.containers.run: a new container of alpine:latest
\* for every call, removed when the command ends
containers_run(command, args) ==
    [command |-> command, args |-> args,
     network_mode |-> IF needs_host_network(command) THEN "host" ELSE "bridge",
     privileged |-> needs_host_network(command),
     remove |-> TRUE]

\* execute_host_command up to client.containers.run, without the check of
\* the command against ALLOWED_HOST_COMMANDS
execute_host_command_unvalidated(g, command, args) ==
    [g EXCEPT !.pc = "starting",
              !.request = containers_run(command, args)]

\* execute_host_command up to client.containers.run: the command is validated
\* first, then the command of the container is built
execute_host_command(g, command, args) ==
    IF command \notin ALLOWED_HOST_COMMANDS THEN Refused(g, "not_allowed")
    ELSE [g EXCEPT !.pc = "starting",
                   !.request = containers_run(command, args)]

\* execute_host_command_simple: parts = shlex.split(command_line); args is
\* None (here <<>>) when there is one part only
execute_host_command_simple(g) ==
    LET split == shlex_split(g.command_line) IN
    IF ~split.ok THEN Refused(g, "parse")
    ELSE IF split.parts = <<>> THEN Refused(g, "empty")
    ELSE execute_host_command(g, split.parts[1], Tail(split.parts))

\* except asyncio.TimeoutError, with run_container left to the executor
\* thread until it ends: the variant that waits for the command
on_timeout_joined(g) ==
    [g EXCEPT !.pc = "returned", !.sandbox = "exited",
              !.result = [kind |-> "output", success |-> TRUE]]

\* except asyncio.TimeoutError: wait_for gave up the future of the executor,
\* the thread and the container go on
on_timeout(g) ==
    [g EXCEPT !.pc = "returned", !.result = [kind |-> "timeout", success |-> FALSE]]

\* What run_container ends with: the output, or ContainerError, ImageNotFound
\* or another exception of the docker client
Outcomes == {"output", "container_error", "image_not_found", "error"}

\* The end of run_container: the waiting call returns with it; one that
\* already returned on the timeout has no one left to take the result
run_container_ended(g, outcome) ==
    IF g.pc = "waiting"
    THEN [g EXCEPT !.pc = "returned", !.sandbox = "exited",
                   !.result = [kind |-> outcome, success |-> outcome = "output"]]
    ELSE [g EXCEPT !.sandbox = "exited"]

BotIdle ==
    UNCHANGED <<fsmState, fsmData, sessions, messages, nextId, tasks, nEvents, last,
                flagParser, reply>>

\* The call runs to its first await: refused, or about to ask docker
HostCall ==
    /\ gateway.pc = "called"
    /\ gateway' = execute_host_command_simple(gateway)
    /\ BotIdle

\* docker.from_env() and run_in_executor: the docker client cannot be made
\* (except Exception), or run_container starts in the executor
HostStart ==
    /\ gateway.pc = "starting"
    /\ \/ gateway' = Refused(gateway, "error")
       \/ gateway' = [gateway EXCEPT !.pc = "waiting", !.sandbox = "running", !.clock = 0]
    /\ BotIdle

\* A second passes while wait_for waits, up to timeout + 5
Tick ==
    /\ gateway.pc = "waiting"
    /\ gateway.clock < timeout + startup_buffer
    /\ gateway' = [gateway EXCEPT !.clock = @ + 1]
    /\ BotIdle

\* run_container ends, before the timeout elapsed or after the call returned
RunContainerEnd ==
    /\ gateway.sandbox = "running"
    /\ gateway.pc = "waiting" => gateway.clock < timeout + startup_buffer
    /\ \E outcome \in Outcomes : gateway' = run_container_ended(gateway, outcome)
    /\ BotIdle

\* timeout + 5 seconds elapsed and run_container has not ended
TimeoutError ==
    /\ gateway.pc = "waiting"
    /\ gateway.clock = timeout + startup_buffer
    /\ gateway' = on_timeout(gateway)
    /\ BotIdle

InitHost ==
    /\ fsmState = [u \in Accounts |-> NoState]
    /\ fsmData = [u \in Accounts |-> EmptyData]
    /\ sessions = {}
    /\ nextId = [k \in Kinds |-> 1]
    /\ messages = <<>>
    /\ tasks = [t \in Tasks |-> IdleTask]
    /\ nEvents = 0
    /\ last = NoStep
    /\ flagParser = NoParse
    /\ reply = NoReply
    /\ \E command_line \in CommandLines :
          gateway = [NoCall EXCEPT !.pc = "called", !.command_line = command_line]

NextHost ==
    \/ HostCall
    \/ HostStart
    \/ Tick
    \/ RunContainerEnd
    \/ TimeoutError

SpecHost == InitHost /\ [][NextHost]_vars

(***************************************************************************)
(* parse_flags_from_query (claude_cli.py, cursor_cli.py) called on its own *)
(***************************************************************************)
MaxPieces == 5

\* The pieces the queries are put together from: a word, a blank, the first
\* character of the marker, the marker in two letter cases
Pieces ==
    {<<"o","n","l","y">>, <<" ">>, <<"#">>,
     <<"#","f","l","a","g","s">>, <<"#","F","L","A","G","S">>}

RECURSIVE Concat(_)
Concat(ps) == IF ps = <<>> THEN <<>> ELSE Head(ps) \o Concat(Tail(ps))

Queries == {Concat(ps) : ps \in UNION {[1..n -> Pieces] : n \in 0..MaxPieces}}

ParseFlags ==
    /\ flagParser.pc = "called"
    /\ flagParser' = [flagParser EXCEPT !.pc = "returned",
                                        !.result = parse_flags_from_query(flagParser.query)]
    /\ UNCHANGED <<fsmState, fsmData, sessions, messages, nextId, tasks, nEvents, last,
                   gateway, reply>>

InitFlags ==
    /\ fsmState = [u \in Accounts |-> NoState]
    /\ fsmData = [u \in Accounts |-> EmptyData]
    /\ sessions = {}
    /\ nextId = [k \in Kinds |-> 1]
    /\ messages = <<>>
    /\ tasks = [t \in Tasks |-> IdleTask]
    /\ nEvents = 0
    /\ last = NoStep
    /\ gateway = NoCall
    /\ reply = NoReply
    /\ \E query \in Queries : flagParser = [NoParse EXCEPT !.pc = "called", !.query = query]

NextFlags == ParseFlags

SpecFlags == InitFlags /\ [][NextFlags]_vars

(***************************************************************************)
(* The output of a call on its way to the user, by lengths: raw is the     *)
(* number of characters the process wrote, body the number of them in the  *)
(* text the call returned, shown the number of them in message.answer      *)
(***************************************************************************)
MaxOver == 2

\* if len(output) > 4000: output = output[:4000] + "..."
display_ceiling == 4000
\* error_msg[:1000]
error_excerpt == 1000

Min(a, b) == IF a <= b THEN a ELSE b

RawLengths ==
    (0..MaxOver)
    \cup ((error_excerpt - MaxOver)..(error_excerpt + MaxOver))
    \cup ((display_ceiling - MaxOver)..(display_ceiling + MaxOver))

\* The paths of the handlers that answer with an output
Paths(k) == IF k = "chatgpt" THEN {"query"} ELSE {"query", "flags", "host"}

\* How a call ends: exit code 0, another exit code (ContainerError for a host
\* command), or an exception before the process ran (NotFound, APIError,
\* the timeout of a host command)
Exits == {"zero", "nonzero", "exception"}

\* execute_claude_command: (output, True), or the whole output behind the
\* error wording
execute_claude_command(exit, raw) ==
    CASE exit = "zero" -> [body |-> raw, success |-> TRUE]
      [] exit = "nonzero" -> [body |-> raw, success |-> FALSE]
      [] OTHER -> [body |-> 0, success |-> FALSE]

\* execute_cursor_command: an empty output of exit code 0 is an error; a
\* failure returns error_msg[:1000] behind the error wording
execute_cursor_command(exit, raw) ==
    CASE exit = "zero" -> [body |-> raw, success |-> raw > 0]
      [] exit = "nonzero" -> [body |-> Min(raw, error_excerpt), success |-> FALSE]
      [] OTHER -> [body |-> 0, success |-> FALSE]

\* execute_chatgpt_command: a failure returns error_msg[:1000] behind the
\* error wording
execute_chatgpt_command(exit, raw) ==
    CASE exit = "zero" -> [body |-> raw, success |-> TRUE]
      [] exit = "nonzero" -> [body |-> Min(raw, error_excerpt), success |-> FALSE]
      [] OTHER -> [body |-> 0, success |-> FALSE]

\* execute_host_command once the command was let through: the output of the
\* container, or the stderr of ContainerError behind "Error executing
\* command: ", or a message of the gateway
host_command_result(exit, raw) ==
    CASE exit = "zero" -> [body |-> raw, success |-> TRUE]
      [] exit = "nonzero" -> [body |-> raw, success |-> FALSE]
      [] OTHER -> [body |-> 0, success |-> FALSE]

\* The call of the path returns (output, success)
ExecuteCommand ==
    /\ reply.pc = "called"
    /\ LET r == IF reply.path = "host" THEN host_command_result(reply.exit, reply.raw)
                ELSE CASE reply.kind = "claude" -> execute_claude_command(reply.exit, reply.raw)
                       [] reply.kind = "cursor" -> execute_cursor_command(reply.exit, reply.raw)
                       [] reply.kind = "chatgpt" ->
                             execute_chatgpt_command(reply.exit, reply.raw)
       IN reply' = [reply EXCEPT !.pc = "returned", !.body = r.body, !.success = r.success]
    /\ UNCHANGED <<fsmState, fsmData, sessions, messages, nextId, tasks, nEvents, last,
                   gateway, flagParser>>

\* message.answer of the output: handle_query_input cuts a successful output
\* (and a successful host output) at 4000 characters and appends the marker;
\* handle_flags_input and every failure branch send the output as it is
Answer ==
    /\ reply.pc = "returned"
    /\ LET cut == reply.success /\ reply.path \in {"query", "host"} IN
       reply' = [reply EXCEPT
                   !.pc = "sent",
                   !.shown = IF cut THEN Min(reply.body, display_ceiling) ELSE reply.body,
                   !.marked = cut /\ reply.body > display_ceiling]
    /\ UNCHANGED <<fsmState, fsmData, sessions, messages, nextId, tasks, nEvents, last,
                   gateway, flagParser>>

InitReply ==
    /\ fsmState = [u \in Accounts |-> NoState]
    /\ fsmData = [u \in Accounts |-> EmptyData]
    /\ sessions = {}
    /\ nextId = [k \in Kinds |-> 1]
    /\ messages = <<>>
    /\ tasks = [t \in Tasks |-> IdleTask]
    /\ nEvents = 0
    /\ last = NoStep
    /\ gateway = NoCall
    /\ flagParser = NoParse
    /\ \E k \in Kinds, exit \in Exits, raw \in RawLengths :
          \E path \in Paths(k) :
             reply = [NoReply EXCEPT !.pc = "called", !.kind = k, !.path = path,
                                     !.exit = exit, !.raw = raw]

NextReply ==
    \/ ExecuteCommand
    \/ Answer

SpecReply == InitReply /\ [][NextReply]_vars

(***************************************************************************)
(* Properties                                                              *)
(***************************************************************************)

\* The tasks of a user that wait for the agent's answer to a query on the
\* session with registry id sid of kind k
InFlight(u, k, sid) ==
    {t \in Tasks : /\ tasks[t].pc = "exec"
                   /\ tasks[t].user = u
                   /\ tasks[t].loc.kind = k
                   /\ tasks[t].loc.sid = sid}

\* C1: for one user and one session there is never more than one outstanding
\* agent query: a second query for the session does not start before the
\* first has returned.
C1_SingleFlight ==
    \A u \in Users, k \in Kinds :
        \A sid \in 1..nextId[k] : Cardinality(InFlight(u, k, sid)) <= 1

\* The positions of the effects of one sort in the trace of a turn
Positions(tr, op) == {i \in DOMAIN tr : tr[i].op = op}

\* This step took a new update off the queue (the others resume a task)
IsDelivery == nEvents' = nEvents + 1

\* C2: a turn that selects an existing session by name issues exactly one
\* endSession call when the cached token of the previously active session is
\* non-null, for that very token, and none when it is null; the call comes
\* before the selected session is made the active one.
C2_SwitchStep ==
    last'.op = "switch" =>
        LET tr == last'.trace
            ends == Positions(tr, "end")
            acts == Positions(tr, "activate")
        IN /\ Cardinality(ends) <= 1
           /\ \A i \in ends, j \in acts : i < j
           /\ IsDelivery =>
                LET prev == fsmData[last'.user].session_uuid IN
                IF prev = None THEN ends = {}
                ELSE ends = {1} /\ tr[1].tok = prev

C3_ReplaceStep ==
    \A u \in Users :
        LET d == fsmData[u]
            d2 == fsmData'[u]
        IN (/\ d.session_name # <<>> /\ d.session_uuid # None
            /\ d2.session_name # <<>> /\ d2.session_name # d.session_name)
           => \E i \in Positions(last'.trace, "end") :
                 /\ last'.trace[i].tok = d.session_uuid
                 /\ \E j \in Positions(last'.trace, "activate") : i < j

C3_EndBeforeReplace == [][C3_ReplaceStep]_vars

\* The session rows a step removes from the registry
DeletedRows ==
    {r \in sessions : ~ \E r2 \in sessions' : r2.kind = r.kind /\ r2.id = r.id}

\* C4: deleting a session that has n recorded exchanges leaves those n
\* exchanges in the log with a null session reference and unchanged query and
\* response, and the confirmation reports n.
C4_DeleteStep ==
    \A r \in DeletedRows :
        LET of == MessagesOf(messages, r.kind, r.id)
            tr == last'.trace
        IN /\ DOMAIN messages' = DOMAIN messages
           /\ \A i \in DOMAIN messages :
                 messages'[i] = IF i \in of THEN [messages[i] EXCEPT !.session_id = 0]
                                ELSE messages[i]
           /\ tr # <<>>
           /\ tr[Len(tr)] = Eff("deleted", None, r.session_name, Cardinality(of))

C5_ReferentialIntegrity ==
    \A i \in DOMAIN messages :
        \/ messages[i].session_id = 0
        \/ \E r \in sessions : r.kind = messages[i].kind /\ r.id = messages[i].session_id

\* The agent answered a query whose session was deleted while it was in
\* flight, and the exchange was refused
C5_Witness ==
    /\ last.handler \in {"query", "flags", "chatgpt"}
    /\ last.crashed
    /\ \E i \in Positions(last.trace, "query") :
          ~ \E r \in sessions : r.kind = last.kind /\ r.id = last.trace[i].n

\* The session rows a step adds to the registry
CreatedRows ==
    {r \in sessions' : ~ \E r2 \in sessions : r2.kind = r.kind /\ r2.id = r.id}

C6_UniquePerKindStep ==
    /\ \A r \in CreatedRows :
          ~ \E r2 \in sessions : /\ r2.kind = r.kind /\ r2.user_id = r.user_id
                                 /\ r2.session_name = r.session_name
    /\ \A r1, r2 \in sessions' :
          (/\ r1.kind = r2.kind /\ r1.user_id = r2.user_id
           /\ r1.session_name = r2.session_name) => r1 = r2

C7_TokenStep ==
    \A r \in sessions, r2 \in sessions' :
        (r.kind = r2.kind /\ r.id = r2.id /\ r.uuid # None) => r2.uuid = r.uuid

C7_TokenImmutable == [][C7_TokenStep]_vars

\* C8: when an ordinary query on a session whose stored token is null
\* succeeds and the agent returns the token t, then at the end of the turn the
\* registry holds t for the session and the cached token is t.
C8_LazyToken ==
    (/\ last.handler = "query" /\ last.done
     /\ Len(last.trace) = 2
     /\ last.trace[1].op = "query" /\ last.trace[1].tok = None
     /\ last.trace[2].op = "returned" /\ last.trace[2].tok # None)
    => /\ \E r \in sessions : /\ r.kind = last.kind /\ r.id = last.trace[1].n
                              /\ r.uuid = last.trace[2].tok
       /\ fsmData[last.user].session_uuid = last.trace[2].tok

\* The conversation state is entirely cleared: no mode, no active session,
\* no cached token, no pending query
Cleared(st, data) ==
    /\ st = NoState
    /\ data.session_name = <<>>
    /\ data.session_uuid = None
    /\ data.current_query = <<>>

\* C9: for every agent kind, "/exit" sent while a query or flags are awaited
\* calls endSession exactly when the cached token is non-null, and leaves the
\* conversation state entirely cleared.
C9_ExitStep ==
    LET u == last'.user IN
    /\ (/\ IsDelivery /\ last'.text = T_exit
        /\ fsmState[u].name \in {"waiting_for_query", "adding_flags"})
       => /\ (Positions(last'.trace, "end") # {}) <=> (fsmData[u].session_uuid # None)
          /\ last'.done => Cleared(fsmState'[u], fsmData'[u])
    /\ (~IsDelivery /\ last'.op = "exit" /\ last'.done) => Cleared(fsmState'[u], fsmData'[u])

C9_ExitEveryKind == [][C9_ExitStep]_vars

\* C10: while the name of a new session is awaited, the exit and the
\* back-to-main control words are handled as control commands and bring the
\* user back to idle; they are never taken for a candidate session name.
C10_ControlStep ==
    LET u == last'.user IN
    (/\ IsDelivery /\ last'.text \in {T_exit, T_start, BACK_TO_MAIN}
     /\ fsmState[u].name = "waiting_for_session_name")
    => /\ last'.handler \notin {"claude.handle_session_name_input",
                                "cursor.handle_session_name_input",
                                "chatgpt.handle_session_name_input"}
       /\ last'.done => fsmState'[u] = NoState

C10_ControlWordsInNaming == [][C10_ControlStep]_vars

\* The mode in which the delivered text was received
InSession(st) == st.name \in {"waiting_for_query", "adding_flags"}

\* C11: while a query or flags are awaited, every letter-case variant of
\* "/exit" and of "/delete" is handled as the exit or the delete command and
\* is never forwarded to the agent as an ordinary query.
C11_ControlStep ==
    LET u == last'.user
        word == Lower(Strip(last'.text))
    IN (IsDelivery /\ word \in {T_exit, T_delete} /\ InSession(fsmState[u]))
       => /\ Positions(last'.trace, "query") = {}
          /\ word = T_exit => last'.op = "exit"
          /\ (word = T_delete /\ fsmData[u].session_name # <<>>) => last'.op = "delete"

C11_CaseInsensitiveControl == [][C11_ControlStep]_vars

\* The agent kind whose mode the conversation is in
KindOf(st) == CHOOSE k \in Kinds : Group(k) = st.group

\* C12: for every agent kind, "/delete" sent while a session is active
\* removes the session's row from the registry, calls endSession on its token
\* if the token is non-null, issues no agent query for the text, and leaves
\* the conversation state without an active session.
C12_DeleteStep ==
    LET u == last'.user
        d == fsmData[u]
    IN /\ (/\ IsDelivery /\ Strip(last'.text) = T_delete
           /\ InSession(fsmState[u]) /\ d.session_name # <<>>)
          => /\ Positions(last'.trace, "query") = {}
             /\ d.session_uuid # None =>
                   \E i \in Positions(last'.trace, "end") :
                      last'.trace[i].tok = d.session_uuid
             /\ last'.done =>
                   /\ fsmData'[u].session_name = <<>>
                   /\ ~ \E r \in sessions' : /\ r.kind = KindOf(fsmState[u])
                                             /\ r.user_id = u
                                             /\ r.session_name = d.session_name
       /\ (~IsDelivery /\ last'.op = "delete" /\ last'.done)
          => fsmData'[u].session_name = <<>>

C12_DeleteEveryKind == [][C12_DeleteStep]_vars

\* C14: in awaitingQuery the "Flags" control word changes the mode to
\* addingFlags and issues no agent query; addingFlags is reachable through
\* the dispatch order of the handlers.
C14_FlagsStep ==
    LET u == last'.user IN
    (/\ IsDelivery /\ Strip(last'.text) = FLAGS_BUTTON
     /\ fsmState[u] \in {St("claude", "waiting_for_query"), St("cursor", "waiting_for_query")})
    => /\ fsmState'[u] = St(KindOf(fsmState[u]), "adding_flags")
       /\ Positions(last'.trace, "query") = {}

C14_FlagsTransition == [][C14_FlagsStep]_vars

\* A text that is no control word, no menu label, no host command and not the
\* name of one of the user's sessions of kind k
IsOrdinaryText(text, u, k) ==
    LET t == Strip(text) IN
    /\ t # <<>>
    /\ Lower(t) \notin {T_exit, T_delete, T_start}
    /\ t \notin {BACK_TO_MAIN, NEW_SESSION_BUTTON, FLAGS_BUTTON}
    /\ ~IsHostCommand(t)
    /\ t \notin {r.session_name : r \in {x \in sessions : x.kind = k /\ x.user_id = u}}

\* The registry row of the active session of kind k, NoRow if it has none
ActiveRow(u, k) ==
    LET rows == {r \in sessions : /\ r.kind = k /\ r.user_id = u
                                  /\ r.session_name = fsmData[u].session_name}
    IN IF rows = {} THEN NoRow ELSE CHOOSE r \in rows : TRUE

\* C16: an ordinary text received in awaitingQuery with an existing active
\* session invokes the agent exactly once, with the token the registry holds
\* for the session; when the call returns, whether it succeeded or not,
\* exactly one exchange is appended for the session and the mode is still
\* awaitingQuery with the same active session.
C16_QueryStep ==
    LET u == last'.user
        tr == last'.trace
    IN /\ (/\ IsDelivery /\ fsmState[u].name = "waiting_for_query"
           /\ IsOrdinaryText(last'.text, u, KindOf(fsmState[u]))
           /\ ActiveRow(u, KindOf(fsmState[u])) # NoRow)
          => LET row == ActiveRow(u, KindOf(fsmState[u])) IN
             tr = <<Eff("query", row.uuid, row.session_name, row.id)>>
       /\ (~IsDelivery /\ last'.handler \in {"query", "chatgpt"})
          => /\ Cardinality(Positions(tr, "query")) = 1
             /\ Len(messages') = Len(messages) + 1
             /\ messages'[Len(messages')].session_id = tr[1].n
             /\ messages'[Len(messages')].kind = last'.kind
             /\ fsmState'[u] = St(last'.kind, "waiting_for_query")
             /\ fsmData'[u].session_name = tr[1].name

C16_OrdinaryQueryTurn == [][C16_QueryStep]_vars

\* C17: for every agent kind, a text received in awaitingQuery that is the
\* name of another existing session of the user makes that session the active
\* one, leaves the mode awaitingQuery, issues no agent query and records no
\* exchange for the text.
C17_SwitchStep ==
    LET u == last'.user
        name == Strip(last'.text)
        tr == last'.trace
    IN /\ (/\ IsDelivery /\ fsmState[u].name = "waiting_for_query"
           /\ name # fsmData[u].session_name
           /\ \E r \in sessions : /\ r.kind = KindOf(fsmState[u]) /\ r.user_id = u
                                  /\ r.session_name = name)
          => /\ Positions(tr, "query") = {}
             /\ messages' = messages
             /\ last'.done => /\ fsmData'[u].session_name = name
                              /\ fsmState'[u] = fsmState[u]
       /\ (~IsDelivery /\ last'.op = "switch")
          => /\ Positions(tr, "query") = {}
             /\ messages' = messages
             /\ \E i \in Positions(tr, "activate") :
                   /\ fsmData'[u].session_name = tr[i].name
                   /\ fsmState'[u] = St(last'.kind, "waiting_for_query")

C17_SwitchByName == [][C17_SwitchStep]_vars

\* C18: for every agent kind, a text received in awaitingQuery that begins
\* with a host-command prefix followed by a command goes to the host command
\* gateway and never to the agent; one exchange is recorded for the active
\* session, and the mode and the active session stay as they are.
C18_HostStep ==
    LET u == last'.user
        text == Strip(last'.text)
        tr == last'.trace
    IN /\ (/\ IsDelivery /\ fsmState[u].name = "waiting_for_query"
           /\ IsHostCommand(text) /\ HostCommandOf(text) # <<>>
           /\ ActiveRow(u, KindOf(fsmState[u])) # NoRow)
          => /\ Positions(tr, "query") = {}
             /\ last'.op = "host"
             /\ fsmState'[u] = fsmState[u]
             /\ fsmData'[u].session_name = fsmData[u].session_name
             /\ last'.done =>
                   /\ Len(messages') = Len(messages) + 1
                   /\ messages'[Len(messages')].session_id
                         = ActiveRow(u, KindOf(fsmState[u])).id
       /\ (~IsDelivery /\ last'.op = "host")
          => /\ Positions(tr, "query") = {}
             /\ Len(messages') = Len(messages) + 1
             /\ fsmState'[u] = fsmState[u]
             /\ fsmData'[u].session_name = fsmData[u].session_name

C18_HostEscape == [][C18_HostStep]_vars

\* The last step finished a delete that removed a session
JustDeleted == last.op = "delete" /\ last.done /\ Positions(last.trace, "deleted") # {}

\* C13: for every agent kind, after a successful delete the submenu of the
\* kind is the active menu context, so that the next text that is the name of
\* one of the user's remaining sessions selects that session.
C13_AfterDeleteStep ==
    LET u == last'.user IN
    /\ \A r \in DeletedRows :
          /\ fsmState'[u] = NoState
          /\ fsmData'[u].menu_parent_id = MenuKey(r.kind)
    /\ (/\ IsDelivery /\ JustDeleted /\ last.user = u
        /\ \E r \in sessions : /\ r.kind = last.kind /\ r.user_id = u
                               /\ r.session_name = Strip(last'.text))
       => /\ last'.op = "switch"
          /\ \E i \in Positions(last'.trace, "activate") :
                last'.trace[i].name = Strip(last'.text)

C13_ReturnToSubmenu == [][C13_AfterDeleteStep]_vars

\* C15: a free text received in addingFlags with an active session executes
\* the query, and the turn ends with the mode awaitingQuery and the same
\* session still active, so that the next ordinary text goes to that session.
C15_FlagsStep ==
    LET u == last'.user
        tr == last'.trace
    IN /\ (/\ IsDelivery /\ last'.handler # "button"
           /\ fsmState[u].name = "adding_flags"
           /\ IsOrdinaryText(last'.text, u, KindOf(fsmState[u]))
           /\ ActiveRow(u, KindOf(fsmState[u])) # NoRow)
          => /\ Cardinality(Positions(tr, "query")) = 1
             /\ tr[1].name = fsmData[u].session_name
       /\ (~IsDelivery /\ last'.handler = "flags")
          => /\ fsmState'[u] = St(last'.kind, "waiting_for_query")
             /\ fsmData'[u].session_name = tr[1].name

C15_FlagsCompletion == [][C15_FlagsStep]_vars

\* The first token of the gateway's command line is in the allow-list
FirstTokenAllowed ==
    LET split == shlex_split(gateway.command_line) IN
    /\ split.ok
    /\ split.parts # <<>>
    /\ split.parts[1] \in ALLOWED_HOST_COMMANDS

\* C19: a command line that is empty or whose first token is not in the
\* allow-list is refused with success = false and the sandbox is never asked
\* for; a container is only ever requested for a command line whose first
\* token is in the allow-list.
C19_AllowList ==
    /\ (gateway.pc \in {"starting", "waiting"} \/ gateway.sandbox # "none")
          => /\ FirstTokenAllowed
             /\ gateway.request.command \in ALLOWED_HOST_COMMANDS
    /\ (gateway.pc = "returned" /\ ~FirstTokenAllowed)
          => /\ ~gateway.result.success
             /\ gateway.sandbox = "none"
             /\ gateway.request = NoRequest

\* "rm" was refused without a container
C19_Witness ==
    /\ gateway.pc = "returned"
    /\ gateway.command_line = <<"r", "m">>
    /\ gateway.result = [kind |-> "not_allowed", success |-> FALSE]
    /\ gateway.sandbox = "none"

\* C20: when timeout plus the startup buffer has elapsed and the container
\* has not ended, the call returns success = false with the timeout message
\* and leaves the container running; whatever the container does after the
\* call returned, the returned result stays what it was.
C20_TimeoutStep ==
    /\ (/\ gateway.pc = "waiting"
        /\ gateway.clock = timeout + startup_buffer
        /\ gateway' # gateway)
       => /\ gateway'.pc = "returned"
          /\ gateway'.result = [kind |-> "timeout", success |-> FALSE]
          /\ gateway'.sandbox = "running"
    /\ gateway.pc = "returned"
       => /\ gateway'.pc = "returned"
          /\ gateway'.result = gateway.result

C20_HostTimeout == [][C20_TimeoutStep]_vars

\* The call returned on the timeout and the container ended afterwards
C20_Witness ==
    /\ gateway.pc = "returned"
    /\ gateway.result = [kind |-> "timeout", success |-> FALSE]
    /\ gateway.clock = timeout + startup_buffer
    /\ gateway.sandbox = "exited"

\* The step is the return of an agent call that failed (success = false)
FailedReturn ==
    /\ ~IsDelivery
    /\ last'.handler \in {"query", "flags", "chatgpt"}
    /\ \E i \in Positions(last'.trace, "returned") : last'.trace[i].n = 0

\* C21: when the agent call of a query returns success = false, on the
\* ordinary path and on the flags path, an exchange with a null response is
\* recorded for the session the query went to, and the conversation state is
\* not reset: the mode that was awaitingQuery with that session active when
\* the call returned is still so after the turn.
C21_FailureStep ==
    LET u == last'.user
        tr == last'.trace
    IN (/\ FailedReturn
        /\ fsmState[u] = St(last'.kind, "waiting_for_query")
        /\ fsmData[u].session_name = tr[1].name
        /\ ActiveRow(u, last'.kind).id = tr[1].n)
       => /\ Len(messages') = Len(messages) + 1
          /\ messages'[Len(messages')].kind = last'.kind
          /\ messages'[Len(messages')].session_id = tr[1].n
          /\ messages'[Len(messages')].response = None
          /\ fsmState'[u] = St(last'.kind, "waiting_for_query")
          /\ fsmData'[u].session_name = tr[1].name

C21_FailureKeepsState == [][C21_FailureStep]_vars

\* The step delivers a text to a user whose mode is namingSession
NamingDelivery ==
    /\ IsDelivery
    /\ last'.handler # "button"
    /\ fsmState[last'.user].name = "waiting_for_session_name"

\* Nothing but the count of updates and the observer changed
NothingChanged ==
    /\ UNCHANGED <<fsmState, fsmData, sessions, messages, nextId, tasks>>
    /\ last'.trace = <<>>

\* C22, as stated: in namingSession a name that does not match the name
\* pattern, or that the same user already uses for a session of any agent
\* kind, creates no session, calls no agent operation and leaves the mode and
\* the rest of the conversation state as they were.
C22_AnyKindStep ==
    LET u == last'.user
        name == Strip(last'.text)
    IN (/\ NamingDelivery
        /\ \/ ~NameMatches(name)
           \/ \E r \in sessions : r.user_id = u /\ r.session_name = name)
       => NothingChanged

C22_SameKindStep ==
    LET u == last'.user
        name == Strip(last'.text)
        k == KindOf(fsmState[u])
    IN (/\ NamingDelivery
        /\ \/ ~NameMatches(name)
           \/ \E r \in sessions : r.kind = k /\ r.user_id = u /\ r.session_name = name)
       => NothingChanged

ActiveAfter(u, k, name) ==
    /\ fsmState'[u] = St(k, "waiting_for_query")
    /\ fsmData'[u].session_name = name
    /\ \E r \in sessions' : r.kind = k /\ r.user_id = u /\ r.session_name = name

\* C23: from idle with the submenu of an agent kind open, "New Session" leads
\* to namingSession, and a valid unused name then leads to awaitingQuery with
\* the session of that name created and active; a cursor (or chatgpt) session
\* is stored without a resume token.  A claude session is created when the
\* agent's answer to the creation call named a session id.
C23_CreateStep ==
    LET u == last'.user
        name == Strip(last'.text)
        tr == last'.trace
    IN /\ \A k \in Kinds :
             (/\ IsDelivery /\ last'.handler # "button"
              /\ fsmState[u] = NoState
              /\ fsmData[u].menu_parent_id = MenuKey(k)
              /\ last'.text = NEW_SESSION_BUTTON)
             => fsmState'[u] = St(k, "waiting_for_session_name")
       /\ \A k \in {"cursor", "chatgpt"} :
             (/\ NamingDelivery
              /\ fsmState[u].group = Group(k)
              /\ NameMatches(name)
              /\ ~ \E r \in sessions : r.kind = k /\ r.user_id = u /\ r.session_name = name)
             => /\ ActiveAfter(u, k, name)
                /\ \A r \in sessions' :
                      (r.kind = k /\ r.user_id = u /\ r.session_name = name)
                         => r.uuid = None
                /\ fsmData'[u].session_uuid = None
       /\ (/\ NamingDelivery
           /\ fsmState[u].group = Group("claude")
           /\ NameMatches(name)
           /\ ~ \E r \in sessions :
                   r.kind = "claude" /\ r.user_id = u /\ r.session_name = name)
          => /\ Positions(tr, "create") # {}
             /\ ~last'.done
       /\ (/\ ~IsDelivery
           /\ last'.handler = "create"
           /\ Positions(tr, "error") = {}
           /\ ~ \E r \in sessions :
                   r.kind = "claude" /\ r.user_id = u /\ r.session_name = tr[1].name)
          => /\ ActiveAfter(u, "claude", tr[1].name)
             /\ \E r \in sessions' :
                   /\ r.kind = "claude" /\ r.user_id = u /\ r.session_name = tr[1].name
                   /\ r.uuid \in Tokens
                   /\ fsmData'[u].session_uuid = r.uuid

C23_SessionCreation == [][C23_CreateStep]_vars

\* "New Session" and then "c" in the cursor submenu: the session c is active
\* and stored without a token
C23_Witness ==
    /\ last.handler = "cursor.handle_session_name_input"
    /\ last.text = NameC
    /\ fsmState[last.user] = St("cursor", "waiting_for_query")
    /\ fsmData[last.user].session_name = NameC
    /\ \E r \in sessions :
          /\ r.kind = "cursor" /\ r.user_id = last.user
          /\ r.session_name = NameC /\ r.uuid = None

\* The places where the parsed text reads q, a blank, the marker in some
\* letter case, a blank, f, with no marker in q and none in f
RoundTrips ==
    LET s == flagParser.query
        m == Len(FlagsMarker)
    IN {i \in 1..Len(s) :
          /\ i + m + 1 <= Len(s)
          /\ s[i] = " "
          /\ Lower(SubSeq(s, i + 1, i + m)) = FlagsMarker
          /\ s[i + m + 1] = " "
          /\ FindMarker(SubSeq(s, 1, i - 1)) = 0
          /\ FindMarker(SubSeq(s, i + m + 2, Len(s))) = 0}

\* C24, as stated: for q and f without the marker, parsing q, " #flags " in
\* any letter case, f returns (trim(q), trim(f)).
C24_RoundTripAsStated ==
    flagParser.pc = "returned" =>
       \A i \in RoundTrips :
          LET s == flagParser.query IN
          /\ flagParser.result.query = Strip(SubSeq(s, 1, i - 1))
          /\ flagParser.result.flags = Strip(SubSeq(s, i + Len(FlagsMarker) + 2, Len(s)))

\* C24, amended: for q and f without the marker, parsing q, " #flags " in any
\* letter case, f returns trim(q) and, when trim(f) is not empty, trim(f);
\* when trim(f) is empty the flags are null.
C24_RoundTrip ==
    flagParser.pc = "returned" =>
       \A i \in RoundTrips :
          LET s == flagParser.query
              f == Strip(SubSeq(s, i + Len(FlagsMarker) + 2, Len(s)))
          IN /\ flagParser.result.query = Strip(SubSeq(s, 1, i - 1))
             /\ flagParser.result.flags = IF f # <<>> THEN f ELSE NoText

\* "only #FLAGS only" was parsed
C24_Witness ==
    /\ flagParser.pc = "returned"
    /\ flagParser.query = <<"o","n","l","y"," ","#","F","L","A","G","S"," ","o","n","l","y">>
    /\ flagParser.result = [query |-> <<"o","n","l","y">>, flags |-> <<"o","n","l","y">>]

\* C25: for every query q without a marker, with or without blanks at its
\* ends, the parser returns (trim(q), null).
C25_NoMarker ==
    (flagParser.pc = "returned" /\ FindMarker(flagParser.query) = 0)
       => flagParser.result = [query |-> Strip(flagParser.query), flags |-> NoText]

\* C26: for a query with nothing before the marker, as "#flags only", the
\* parser returns an empty clean query and null flags.
C26_MarkerFirst ==
    (flagParser.pc = "returned" /\ FindMarker(flagParser.query) = 1)
       => flagParser.result = [query |-> <<>>, flags |-> NoText]

\* C27: on the query path, the flags path and the host path, for successful
\* and for failed calls, the answer handed to the transport holds at most 4000
\* characters of the output, and the truncation marker when the output was
\* longer.
C27_DisplayCeiling ==
    reply.pc = "sent" =>
       /\ reply.shown <= display_ceiling
       /\ reply.body > display_ceiling => reply.marked

\* C28: for every agent kind, a process that exits with a non-zero status
\* gives success = false and an output text with at most 1000 characters of
\* the process output.
C28_ErrorExcerpt ==
    (reply.pc \in {"returned", "sent"} /\ reply.path # "host" /\ reply.exit = "nonzero")
       => /\ ~reply.success
          /\ reply.body <= error_excerpt

\* C29: whatever the call that ends a session does (exit code 0, another exit
\* code, an exception caught inside), nothing is raised into the handler and
\* a "/delete" of the active session goes on: the row of the session is gone
\* and no session is active afterwards.  For cursor, whose end_cursor_session
\* does nothing, the delete is finished in the turn of the "/delete" itself.
C29_EndStep ==
    LET u == last'.user IN
    /\ \A t \in Tasks :
          (/\ ~IsDelivery
           /\ tasks[t].pc = "end"
           /\ tasks[t].loc.kont = "delete"
           /\ tasks'[t].pc = "idle")
          => /\ ~last'.crashed
             /\ Positions(last'.trace, "ended") # {}
             /\ ~ \E r \in sessions' : /\ r.kind = tasks[t].loc.kind
                                       /\ r.user_id = u
                                       /\ r.session_name = tasks[t].loc.name
             /\ Cleared(fsmState'[u], fsmData'[u])
    /\ (/\ IsDelivery /\ last'.handler # "button"
        /\ fsmState[u] = St("cursor", "waiting_for_query")
        /\ Lower(Strip(last'.text)) = T_delete
        /\ fsmData[u].session_name # <<>>
        /\ fsmData[u].session_uuid # None)
       => /\ last'.done
          /\ ~last'.crashed
          /\ Positions(last'.trace, "end") # {}
          /\ ~ \E r \in sessions' : /\ r.kind = "cursor"
                                    /\ r.user_id = u
                                    /\ r.session_name = fsmData[u].session_name
          /\ Cleared(fsmState'[u], fsmData'[u])

C29_EndNeverBlocksDelete == [][C29_EndStep]_vars

\* The call that ends the claude session failed with an exception and the
\* session was deleted all the same
C29_Witness ==
    /\ last.handler = "delete"
    /\ last.kind = "claude"
    /\ \E i \in Positions(last.trace, "ended") : last.trace[i].tok = "exception"
    /\ Positions(last.trace, "deleted") # {}
    /\ Cleared(fsmState[last.user], fsmData[last.user])

\* The rows of one account in the three messages tables, in insertion order
MessagesOfUser(msgs, v) == SelectSeq(msgs, LAMBDA m : m.user_id = v)

\* C30: a step taken for user u (a delivery of his update, or the return of a
\* sandbox call his turn awaited) leaves the session rows with their resume
\* tokens, the message rows, the FSM state and the FSM data of every other
\* account as they were, also when both accounts own sessions of one name
C30_IsolationStep ==
    \A v \in Accounts \ {last'.user} :
        /\ fsmState'[v] = fsmState[v]
        /\ fsmData'[v] = fsmData[v]
        /\ {r \in sessions' : r.user_id = v} = {r \in sessions : r.user_id = v}
        /\ MessagesOfUser(messages', v) = MessagesOfUser(messages, v)
C30_CrossUserIsolation == [][C30_IsolationStep]_vars

\* u1 deleted his session "a" while u2 works in his session "a" of that kind
C30_Witness ==
    /\ last.user = "u1"
    /\ \E i \in DOMAIN last.trace :
          last.trace[i].op = "deleted" /\ last.trace[i].name = NameA
    /\ \E k \in Kinds :
          /\ fsmState["u2"] = St(k, "waiting_for_query")
          /\ fsmData["u2"].session_name = NameA
          /\ \E r \in sessions : r.kind = k /\ r.user_id = "u2" /\ r.session_name = NameA
          /\ ~ \E r \in sessions : r.kind = k /\ r.user_id = "u1" /\ r.session_name = NameA
          /\ \E i \in DOMAIN messages :
                messages[i].kind = k /\ messages[i].user_id = "u2" /\ messages[i].session_id = 2

\* C31: exchanges are append-only.  No step removes a message row or changes
\* the query, response or flags of one; the only change to an existing row is
\* its session reference becoming null, and only in the step that deletes the
\* session it referred to
C31_AppendOnlyStep ==
    /\ Len(messages') >= Len(messages)
    /\ \A i \in DOMAIN messages :
          \/ messages'[i] = messages[i]
          \/ /\ messages[i].session_id # 0
             /\ messages'[i] = [messages[i] EXCEPT !.session_id = 0]
             /\ \E r \in sessions : r.kind = messages[i].kind /\ r.id = messages[i].session_id
             /\ ~ \E r \in sessions' : r.kind = messages[i].kind /\ r.id = messages[i].session_id
C31_AppendOnly == [][C31_AppendOnlyStep]_vars

\* A session with a recorded exchange was deleted: the exchange is still there,
\* without its session
C31_Witness ==
    /\ \E i \in DOMAIN last.trace : last.trace[i].op = "deleted" /\ last.trace[i].n >= 1
    /\ \E i \in DOMAIN messages : messages[i].session_id = 0 /\ messages[i].query = PlainQuery

\* A delivery to menu_text_router while no FSM state is set and the session
\* list of kind k is open
SubmenuDelivery(u, k) ==
    /\ last'.user = u
    /\ last'.handler = "start.menu_text_router"
    /\ fsmState[u] = NoState
    /\ fsmData[u].menu_parent_id = MenuKey(k)

\* Lower-cased control vocabulary: new session, flags, /exit, /delete, /start,
\* back to main
IsControlWord(text) ==
    \/ Strip(text) \in {NEW_SESSION_BUTTON, FLAGS_BUTTON, BACK_TO_MAIN, T_start}
    \/ Lower(Strip(text)) \in {T_exit, T_delete}

\* The names of u's sessions of kind k, as the database holds them
NamesOf(u, k) == {r.session_name : r \in {x \in sessions : x.kind = k /\ x.user_id = u}}

\* C32: with no FSM state set and the session list of kind k open, a text that
\* is the name of one of the user's sessions of that kind makes that session
\* the active one in waiting_for_query; a text that is neither a control word
\* nor one of those names leaves the FSM state and data as they were and
\* calls no agent
C32_RoutingStep ==
    \A u \in Users, k \in Kinds :
        SubmenuDelivery(u, k) =>
            /\ last'.text \in NamesOf(u, k) =>
                  /\ fsmState'[u] = St(k, "waiting_for_query")
                  /\ fsmData'[u].session_name = last'.text
            /\ (~IsControlWord(last'.text) /\ last'.text \notin NamesOf(u, k)) =>
                  /\ fsmState'[u] = fsmState[u]
                  /\ fsmData'[u] = fsmData[u]
                  /\ Positions(last'.trace, "query") = {}
C32_MenuContextRouting == [][C32_RoutingStep]_vars

\* C33: whenever the user sends the label of a main-menu item, whatever the
\* FSM state, the FSM state and the active session are cleared and the text
\* is never sent to the agent as a query
C33_NavigationStep ==
    \A u \in Users :
        (last'.user = u /\ nEvents' = nEvents + 1 /\ last'.text \in MainMenuLabels) =>
            /\ fsmState'[u] = NoState
            /\ fsmData'[u].session_name = <<>>
            /\ fsmData'[u].session_uuid = None
            /\ Positions(last'.trace, "query") = {}
C33_NavigatingAwayClears == [][C33_NavigationStep]_vars

\* C34: a container is asked for with host networking and privileged mode
\* only when the first token of the command line is a network-diagnostic
\* command; for every other allowed command it is asked for with bridge
\* networking and unprivileged; every container is asked for with remove=True
\* and no call starts one before its own request
C34_ElevatedNetwork ==
    LET split == shlex_split(gateway.command_line)
        req == gateway.request
    IN
    /\ gateway.sandbox # "none" =>
          /\ split.ok /\ split.parts # <<>>
          /\ req.command = split.parts[1]
          /\ req.remove
          /\ IF split.parts[1] \in NETWORK_COMMANDS
             THEN req.network_mode = "host" /\ req.privileged
             ELSE req.network_mode = "bridge" /\ ~req.privileged
    /\ gateway.pc \in {"called", "starting"} => gateway.sandbox = "none"

\* A container runs nc with host networking
C34_Witness ==
    /\ gateway.sandbox = "running"
    /\ gateway.request.command = <<"n","c">>
    /\ gateway.request.network_mode = "host"
    /\ gateway.request.privileged

\* A container runs ls on the bridge, unprivileged
C34_WitnessBridge ==
    /\ gateway.sandbox = "running"
    /\ gateway.request.command = <<"l","s">>
    /\ gateway.request.network_mode = "bridge"
    /\ ~gateway.request.privileged

\* The session the FSM data of u names has no row of kind k
Vanished(u, k) ==
    /\ fsmState[u] = St(k, "waiting_for_query")
    /\ fsmData[u].session_name # <<>>
    /\ fsmData[u].session_name \notin NamesOf(u, k)

\* A text that is no control word, no session name of the kind, no host
\* command and not blank
OrdinaryText(u, k, text) ==
    /\ Strip(text) # <<>>
    /\ ~IsControlWord(text)
    /\ Strip(text) \notin NamesOf(u, k)
    /\ ~IsHostCommand(Strip(text))

\* C35: when an ordinary text arrives in waiting_for_query and the session
\* named in the FSM data has no row for that user, the turn calls no agent,
\* records no message, creates no session and clears the FSM state; for
\* every kind of agent
C35_VanishedStep ==
    \A u \in Users, k \in Kinds :
        (/\ last'.user = u /\ IsDelivery
         /\ Vanished(u, k)
         /\ OrdinaryText(u, k, last'.text)) =>
            /\ Positions(last'.trace, "query") = {}
            /\ messages' = messages
            /\ sessions' = sessions
            /\ fsmState'[u] = NoState
            /\ fsmData'[u].session_name = <<>>
C35_VanishedSession == [][C35_VanishedStep]_vars

\* The world of u with one more claude session, stored without a token, which
\* the FSM data names as the active one in FSM state st
NullTokenName == <<"n">>
NullTokenWorld(u, st) ==
    [World(u) EXCEPT !.sessions = @ \cup {SessionRow("claude", nextId["claude"], u,
                                                     NullTokenName, None)},
                     !.st = st,
                     !.data.session_name = NullTokenName,
                     !.data.session_uuid = None,
                     !.data.current_query = PlainQuery]

\* A turn that called no agent and left no session active
Answered(w) ==
    /\ w.pc = "done"
    /\ Positions(w.trace, "query") = {}
    /\ Positions(w.trace, "activate") = {}
    /\ w.st # St("claude", "waiting_for_query")

\* C36: claude is never asked with a null token.  Every claude row holds a
\* token (the row is inserted only after the remote creation named one), every
\* query of a claude turn carries a token, and a query, a flags input or a
\* selection on a claude session stored without a token ends the turn with
\* no agent call
C36_TokenStep ==
    /\ \A r \in sessions' : r.kind = "claude" => r.uuid # None
    /\ last'.kind = "claude" =>
          \A i \in Positions(last'.trace, "query") : last'.trace[i].tok # None
    /\ \A u \in Users :
          /\ Answered(handle_query_input(
                 NullTokenWorld(u, St("claude", "waiting_for_query")), "claude", PlainQuery))
          /\ Answered(handle_flags_input(
                 NullTokenWorld(u, St("claude", "adding_flags")), "claude", <<"-","v">>))
          /\ Answered(handle_session_button(
                 [NullTokenWorld(u, NoState) EXCEPT !.data.session_name = <<>>],
                 "claude", NullTokenName))
C36_ClaudeNeedsToken == [][C36_TokenStep]_vars

\* A claude session was created after the remote call named a token, and a
\* query of it was sent with that token
C36_Witness ==
    /\ last.kind = "claude"
    /\ \E i \in Positions(last.trace, "query") :
          /\ last.trace[i].tok # None
          /\ last.trace[i].name = NameC
    /\ \E r \in sessions : r.kind = "claude" /\ r.session_name = NameC /\ r.uuid # None

\* C37: a free text f delivered in adding_flags sends the pending query to the
\* agent with exactly trim(f) as its extra flags; the flags handed over never
\* hold the marker, and the text handed over is the pending query, not empty
\* when a query was pending
C37_CompositionStep ==
    LET u == last'.user
        k == KindOf(fsmState[u])
        pending == parse_flags_from_query(fsmData[u].current_query).query
    IN (/\ IsDelivery /\ last'.handler # "button"
        /\ fsmState[u].name = "adding_flags"
        /\ IsOrdinaryText(last'.text, u, k)
        /\ ActiveRow(u, k) # NoRow)
       => \E t \in Tasks :
             /\ tasks[t].pc = "idle" /\ tasks'[t].pc = "exec"
             /\ tasks'[t].loc.flags = Strip(last'.text)
             /\ FindMarker(Strip(last'.text)) = 0
             /\ tasks'[t].loc.query = pending
C37_FlagsComposition == [][C37_CompositionStep]_vars

\* C38: whenever a user is in waiting_for_query with a session whose row
\* exists, the token cached in the FSM data is null or the token stored in
\* that row, so the token handed to the end of the session on a switch, a
\* delete or an exit is the active session's own
C38_CachedToken ==
    \A u \in Users, k \in Kinds :
        (fsmState[u] = St(k, "waiting_for_query") /\ ActiveRow(u, k) # NoRow) =>
            fsmData[u].session_uuid \in {None, ActiveRow(u, k).uuid}

\* The rows of kind k that u holds under a name
RowsNamed(rows, u, k, name) ==
    {r \in rows : r.kind = k /\ r.user_id = u /\ r.session_name = name}

\* A creation of kind k by u returns for a name another turn stored meanwhile
LosingCreation(u, k, name) ==
    /\ ~IsDelivery
    /\ last'.user = u /\ last'.handler = "create" /\ last'.kind = k
    /\ \E t \in Tasks : tasks[t].pc = "create" /\ tasks'[t].pc = "idle"
                        /\ tasks[t].user = u /\ tasks[t].loc.name = name
    /\ RowsNamed(sessions, u, k, name) # {}

\* C39: when two turns of one user create a session of the same name at the
\* same time, one row for (user, name) exists afterwards; the attempt that
\* comes second ends with the error value, not with an exception, and does not
\* make the session the active one: it leaves the FSM state and data alone
C39_CreationStep ==
    \A u \in Users, k \in Kinds, name \in Texts :
        LosingCreation(u, k, name) =>
            /\ Cardinality(RowsNamed(sessions', u, k, name)) = 1
            /\ sessions' = sessions
            /\ ~last'.crashed
            /\ Positions(last'.trace, "error") # {}
            /\ Positions(last'.trace, "activate") = {}
            /\ fsmState'[u] = fsmState[u]
            /\ fsmData'[u] = fsmData[u]
C40_SelectStep ==
    \A u \in Users, k \in Kinds :
        \A r \in RowsNamed(sessions, u, k, last'.text) :
            SubmenuDelivery(u, k) =>
                /\ fsmState'[u] = St(k, "waiting_for_query")
                /\ fsmData'[u].session_name = r.session_name
                /\ fsmData'[u].session_uuid = r.uuid
                /\ r \in sessions'
C40_EverySessionSelectable == [][C40_SelectStep]_vars
====
